---- MODULE Spec2Model ----
(***************************************************************************)
(* Model of the Hyperliquid whale tracker: the position change detector    *)
(* (position_tracker.py), the polling cycle that drives it, and the        *)
(* Telegram notifier and command handler that share its registries.        *)
(*                                                                         *)
(* In the polling cycle Decimal amounts are whole dollars, and             *)
(* Position.timestamp and PositionChange.timestamp (datetime.now()) are    *)
(* read by no operation of the cycle and are left out of its records.      *)
(* The positions file is modelled apart, with Decimals as sign,            *)
(* coefficient and exponent, timestamps to the microsecond and texts as    *)
(* sequences of characters.                                                *)
(*                                                                         *)
(* Specifications: SpecDetect (the detector on arbitrary maps), Spec (the  *)
(* tracker process), SpecSystem (tracker and command handler), SpecLoop    *)
(* (the monitoring loop with its failures, under fairness), SpecBroadcast  *)
(* (send_message), SpecPersist (the positions file), SpecValidate (the     *)
(* address validator), SpecCommands (the command handler process),         *)
(* SpecStartup (construction of the notifier), SpecAlias (the alias        *)
(* generator), SpecWrite (the snapshot write in its two steps), SpecDrift  *)
(* (one position observed over several cycles).                            *)
(***************************************************************************)
EXTENDS Integers, Sequences, FiniteSets, TLC

\* ------------------------------------------------------------------------
\* Configuration (config.py)
\* ------------------------------------------------------------------------
MIN_POSITION_SIZE == 1000

MIN_CHANGE_THRESHOLD == 500

\* Seconds between two cycles
POLLING_INTERVAL == 10

\* ------------------------------------------------------------------------
\* Universe of the model
\* ------------------------------------------------------------------------
Symbols == {"ETH", "BTC"}

Addresses == {"0xa1", "0xa2"}

\* Optional[Position] = None
None == [present |-> FALSE]

Abs(x) == IF x < 0 THEN -x ELSE x

\* dict.get(key): the value, or None when the key is missing
Get(d, key) == IF key \in DOMAIN d THEN d[key] ELSE None

\* The empty dict
EmptyDict == [x \in {} |-> None]

\* Every iteration order of a finite set (Python set iteration order)
Orders(S) ==
  {q \in [1..Cardinality(S) -> S] : \A i, j \in 1..Cardinality(S) : i # j => q[i] # q[j]}

\* One entry of user_state['assetPositions'] as the exchange reports it:
\* szi is the signed size, entryPx = 0 stands for an empty entryPx.
RawEntry(coin, szi, entryPx, pnl) ==
  [coin |-> coin, szi |-> szi, entryPx |-> entryPx, unrealizedPnl |-> pnl]

\* Entries the exchange can report for ETH: zero size, no entry price, below
\* the floor, at the floor, and three above it that lie less than, exactly
\* and more than MIN_CHANGE_THRESHOLD apart.
RawETH ==
  { RawEntry("ETH", 0, 1000, 0),
    RawEntry("ETH", 1, 0, 0),
    RawEntry("ETH", 1, 900, 5),
    RawEntry("ETH", 1, 1000, 10),
    RawEntry("ETH", -1, 1400, -20),
    RawEntry("ETH", 1, 1500, 25),
    RawEntry("ETH", 1, 1900, 30) }

RawBTC == { RawEntry("BTC", 0, 1200, 0), RawEntry("BTC", 2, 1200, 40) }

RawFor(coin) == IF coin = "ETH" THEN RawETH ELSE RawBTC

\* Every assetPositions payload with at most one entry per coin
RawResponses ==
  UNION { {f \in [D -> RawETH \cup RawBTC] : \A c \in D : f[c].coin = c} : D \in SUBSET Symbols }

\* ------------------------------------------------------------------------
\* Position (position_tracker.py)
\* ------------------------------------------------------------------------
\* The Position object get_user_positions builds from one raw entry
MakePosition(raw) ==
  [ symbol         |-> raw.coin,
    size           |-> Abs(raw.szi),
    side           |-> IF raw.szi > 0 THEN "long" ELSE "short",
    entry_price    |-> raw.entryPx,
    market_value   |-> Abs(raw.szi) * raw.entryPx,
    unrealized_pnl |-> raw.unrealizedPnl ]

PositionChange(address, symbol, change_type, old_position, new_position, change_amount) ==
  [ address       |-> address,
    symbol        |-> symbol,
    change_type   |-> change_type,
    old_position  |-> old_position,
    new_position  |-> new_position,
    change_amount |-> change_amount ]

\* ChangesForSymbol with the threshold comparison made strict
ChangesForSymbolStrict(address, symbol, old_positions, new_positions) ==
  LET old_pos == Get(old_positions, symbol)
      new_pos == Get(new_positions, symbol)
  IN  IF old_pos = None /\ new_pos # None
        THEN << PositionChange(address, symbol, "opened", None, new_pos,
                               new_pos.market_value) >>
      ELSE IF old_pos # None /\ new_pos = None
        THEN << PositionChange(address, symbol, "closed", old_pos, None,
                               old_pos.market_value) >>
      ELSE IF old_pos # None /\ new_pos # None
        THEN LET size_change == new_pos.market_value - old_pos.market_value
             IN  IF Abs(size_change) > MIN_CHANGE_THRESHOLD
                   THEN << PositionChange(address, symbol,
                                          IF size_change > 0 THEN "increased"
                                                             ELSE "decreased",
                                          old_pos, new_pos, Abs(size_change)) >>
                   ELSE << >>
      ELSE << >>

\* ChangesForSymbol reporting a close with the size of the position instead
\* of its market value
ChangesForSymbolCloseSize(address, symbol, old_positions, new_positions) ==
  LET old_pos == Get(old_positions, symbol)
      new_pos == Get(new_positions, symbol)
  IN  IF old_pos = None /\ new_pos # None
        THEN << PositionChange(address, symbol, "opened", None, new_pos,
                               new_pos.market_value) >>
      ELSE IF old_pos # None /\ new_pos = None
        THEN << PositionChange(address, symbol, "closed", old_pos, None,
                               old_pos.size) >>
      ELSE IF old_pos # None /\ new_pos # None
        THEN LET size_change == new_pos.market_value - old_pos.market_value
             IN  IF Abs(size_change) >= MIN_CHANGE_THRESHOLD
                   THEN << PositionChange(address, symbol,
                                          IF size_change > 0 THEN "increased"
                                                             ELSE "decreased",
                                          old_pos, new_pos, Abs(size_change)) >>
                   ELSE << >>
      ELSE << >>

\* ChangesForSymbol reporting the signed delta as the change amount
ChangesForSymbolSigned(address, symbol, old_positions, new_positions) ==
  LET old_pos == Get(old_positions, symbol)
      new_pos == Get(new_positions, symbol)
  IN  IF old_pos = None /\ new_pos # None
        THEN << PositionChange(address, symbol, "opened", None, new_pos,
                               new_pos.market_value) >>
      ELSE IF old_pos # None /\ new_pos = None
        THEN << PositionChange(address, symbol, "closed", old_pos, None,
                               old_pos.market_value) >>
      ELSE IF old_pos # None /\ new_pos # None
        THEN LET size_change == new_pos.market_value - old_pos.market_value
             IN  IF Abs(size_change) >= MIN_CHANGE_THRESHOLD
                   THEN << PositionChange(address, symbol,
                                          IF size_change > 0 THEN "increased"
                                                             ELSE "decreased",
                                          old_pos, new_pos, size_change) >>
                   ELSE << >>
      ELSE << >>

\* ChangesForSymbol without the threshold: any symbol held in both maps is
\* reported
ChangesForSymbolNoThreshold(address, symbol, old_positions, new_positions) ==
  LET old_pos == Get(old_positions, symbol)
      new_pos == Get(new_positions, symbol)
  IN  IF old_pos = None /\ new_pos # None
        THEN << PositionChange(address, symbol, "opened", None, new_pos,
                               new_pos.market_value) >>
      ELSE IF old_pos # None /\ new_pos = None
        THEN << PositionChange(address, symbol, "closed", old_pos, None,
                               old_pos.market_value) >>
      ELSE IF old_pos # None /\ new_pos # None
        THEN LET size_change == new_pos.market_value - old_pos.market_value
             IN  << PositionChange(address, symbol,
                                   IF size_change > 0 THEN "increased" ELSE "decreased",
                                   old_pos, new_pos, Abs(size_change)) >>
      ELSE << >>

\* ChangesForSymbol taking the market value of a short position as negative
ChangesForSymbolSide(address, symbol, old_positions, new_positions) ==
  LET old_pos == Get(old_positions, symbol)
      new_pos == Get(new_positions, symbol)
      Signed(pos) == IF pos.side = "short" THEN 0 - pos.market_value ELSE pos.market_value
  IN  IF old_pos = None /\ new_pos # None
        THEN << PositionChange(address, symbol, "opened", None, new_pos,
                               new_pos.market_value) >>
      ELSE IF old_pos # None /\ new_pos = None
        THEN << PositionChange(address, symbol, "closed", old_pos, None,
                               old_pos.market_value) >>
      ELSE IF old_pos # None /\ new_pos # None
        THEN LET size_change == Signed(new_pos) - Signed(old_pos)
             IN  IF Abs(size_change) >= MIN_CHANGE_THRESHOLD
                   THEN << PositionChange(address, symbol,
                                          IF size_change > 0 THEN "increased"
                                                             ELSE "decreased",
                                          old_pos, new_pos, Abs(size_change)) >>
                   ELSE << >>
      ELSE << >>

\* Body of the loop of _detect_changes for one symbol: the changes appended
ChangesForSymbol(address, symbol, old_positions, new_positions) ==
  LET old_pos == Get(old_positions, symbol)
      new_pos == Get(new_positions, symbol)
  IN  IF old_pos = None /\ new_pos # None
        THEN << PositionChange(address, symbol, "opened", None, new_pos,
                               new_pos.market_value) >>
      ELSE IF old_pos # None /\ new_pos = None
        THEN << PositionChange(address, symbol, "closed", old_pos, None,
                               old_pos.market_value) >>
      ELSE IF old_pos # None /\ new_pos # None
        THEN LET size_change == new_pos.market_value - old_pos.market_value
             IN  IF Abs(size_change) >= MIN_CHANGE_THRESHOLD
                   THEN << PositionChange(address, symbol,
                                          IF size_change > 0 THEN "increased"
                                                             ELSE "decreased",
                                          old_pos, new_pos, Abs(size_change)) >>
                   ELSE << >>
      ELSE << >>

RECURSIVE DetectLoop(_, _, _, _)
DetectLoop(address, old_positions, new_positions, order) ==
  IF order = << >>
    THEN << >>
    ELSE ChangesForSymbol(address, Head(order), old_positions, new_positions)
           \o DetectLoop(address, old_positions, new_positions, Tail(order))

\* all_symbols built from the new positions only
AllSymbolsNewOnly(old_positions, new_positions) == DOMAIN new_positions

\* all_symbols of _detect_changes
AllSymbols(old_positions, new_positions) ==
  (DOMAIN old_positions) \cup (DOMAIN new_positions)

\* _detect_changes, iterating all_symbols in the given order
detect_changes(address, old_positions, new_positions, order) ==
  DetectLoop(address, old_positions, new_positions, order)

\* ------------------------------------------------------------------------
\* Fetching (position_tracker.py, get_user_positions)
\* ------------------------------------------------------------------------
\* What info_client.user_state(address) can do: raise, return a state
\* without 'assetPositions', or return a payload
FetchError == [kind |-> "error"]

NoState == [kind |-> "no_state"]

Payload(f) == [kind |-> "ok", assetPositions |-> f]

FetchResponses == {FetchError, NoState} \cup {Payload(f) : f \in RawResponses}

\* The payload with the given entries
PayloadOf(entries) == Payload([c \in {e.coin : e \in entries} |->
                                 CHOOSE e \in entries : e.coin = c])

\* The responses the polling cycle is explored with: a failure, no state,
\* and payloads whose filtered maps differ by openings, closings, moves
\* below and at the threshold, an entry below the floor and one of size zero
CycleResponses ==
  { FetchError,
    NoState,
    PayloadOf({RawEntry("ETH", 1, 1000, 10), RawEntry("BTC", 0, 1200, 0)}),
    PayloadOf({RawEntry("ETH", -1, 1400, -20), RawEntry("BTC", 2, 1200, 40)}),
    PayloadOf({RawEntry("ETH", 1, 1500, 25)}),
    PayloadOf({RawEntry("ETH", 1, 900, 5), RawEntry("BTC", 2, 1200, 40)}) }

\* get_user_positions keeping the entries below MIN_POSITION_SIZE
get_user_positions_nofloor(response) ==
  IF response.kind = "error" THEN EmptyDict
  ELSE IF response.kind = "no_state" THEN EmptyDict
  ELSE LET raw  == response.assetPositions
           kept == {c \in DOMAIN raw : raw[c].szi # 0}
       IN  [c \in kept |-> MakePosition(raw[c])]

\* get_user_positions outside test mode: an exception is logged and
\* answered with the empty dict; entries of zero size or below
\* MIN_POSITION_SIZE are skipped
get_user_positions(response) ==
  IF response.kind = "error" THEN EmptyDict
  ELSE IF response.kind = "no_state" THEN EmptyDict
  ELSE LET raw  == response.assetPositions
           kept == {c \in DOMAIN raw :
                      /\ raw[c].szi # 0
                      /\ ~(MakePosition(raw[c]).market_value < MIN_POSITION_SIZE)}
       IN  [c \in kept |-> MakePosition(raw[c])]

\* SetItem with the new map merged into the old one (dict.update)
SetItemMerge(d, key, val) ==
  [x \in (DOMAIN d) \cup {key} |->
     IF x = key
       THEN (IF key \in DOMAIN d
               THEN [c \in (DOMAIN d[key]) \cup (DOMAIN val) |->
                       IF c \in DOMAIN val THEN val[c] ELSE d[key][c]]
               ELSE val)
       ELSE d[x]]

\* d[key] = val on a dict
SetItem(d, key, val) == [x \in (DOMAIN d) \cup {key} |-> IF x = key THEN val ELSE d[x]]

\* d.get(key, {})
GetSlice(d, key) == IF key \in DOMAIN d THEN d[key] ELSE EmptyDict

\* ------------------------------------------------------------------------
\* Subscribers and broadcast (telegram_bot.py)
\* ------------------------------------------------------------------------
TELEGRAM_SEND_POSITION_CHANGES == TRUE

\* How one bot.send_message call under asyncio.wait_for can end:
\*   "ok"                  it returns
\*   "timeout"             asyncio.TimeoutError
\*   "network"             telegram.error.TimedOut or NetworkError
\*   "bad_request_chat_not_found"
\*                         telegram.error.BadRequest("Chat not found"); the
\*                         library derives BadRequest from NetworkError
\*   "chat_not_found"      an exception of another class whose text contains
\*                         "Chat not found"
\*   "error"               any other exception
DeliverOutcomes ==
  {"ok", "timeout", "network", "bad_request_chat_not_found", "chat_not_found", "error"}

\* The outcomes after which success_count is incremented
Succeeds(outcome) == outcome = "ok"

\* The outcomes handled by "except asyncio.TimeoutError" or by
\* "except (TimedOut, NetworkError)": logged, nothing else
CaughtAsTransient(outcome) ==
  outcome \in {"timeout", "network", "bad_request_chat_not_found"}

\* Deregisters with every failed delivery removing the recipient
DeregistersOnAnyFailure(outcome) == ~Succeeds(outcome)

\* The outcomes after which _remove_invalid_user is called: the exception
\* reached "except Exception" and "Chat not found" is in its text
Deregisters(outcome) ==
  /\ ~Succeeds(outcome)
  /\ ~CaughtAsTransient(outcome)
  /\ outcome = "chat_not_found"

\* An entry of user_chat_ids; the dict keeps insertion order
UserInfo(chat_id, username, first_name, added_at) ==
  [chat_id |-> chat_id, username |-> username, first_name |-> first_name,
   added_at |-> added_at]

HasUser(users, user_id) == \E i \in DOMAIN users : users[i].chat_id = user_id

\* add_user storing the new user_info over an existing entry
add_user_replace(users, user_id, username, first_name, now) ==
  LET user_info == UserInfo(user_id,
                            IF username = "" THEN "Unknown" ELSE username,
                            IF first_name = "" THEN "Unknown" ELSE first_name,
                            now)
  IN  IF ~HasUser(users, user_id)
        THEN Append(users, user_info)
        ELSE [i \in DOMAIN users |->
                IF users[i].chat_id = user_id THEN user_info ELSE users[i]]

\* add_user; username/first_name "" stand for None
add_user(users, user_id, username, first_name, now) ==
  IF ~HasUser(users, user_id)
    THEN Append(users, UserInfo(user_id,
                                IF username = "" THEN "Unknown" ELSE username,
                                IF first_name = "" THEN "Unknown" ELSE first_name,
                                now))
    ELSE [i \in DOMAIN users |->
            IF users[i].chat_id = user_id
              THEN [users[i] EXCEPT
                      !.username = IF username = "" THEN users[i].username ELSE username,
                      !.first_name = IF first_name = "" THEN users[i].first_name
                                                        ELSE first_name]
              ELSE users[i]]

\* get_all_user_chat_ids
get_all_user_chat_ids(users) == [i \in DOMAIN users |-> users[i].chat_id]

\* _remove_invalid_user: the registry without that chat id
remove_invalid_user(users, chat_id) == SelectSeq(users, LAMBDA u : u.chat_id # chat_id)

\* The list send_message iterates: the registered chat ids, or the main chat
\* id when nobody is registered and one is configured (0 = not configured)
BroadcastList(users, main_chat_id) ==
  IF get_all_user_chat_ids(users) = << >> /\ main_chat_id # 0
    THEN << main_chat_id >>
    ELSE get_all_user_chat_ids(users)

\* The loop of send_message from recipient i on, outcomes[i] being the end
\* of the i-th bot.send_message call
RECURSIVE SendLoop(_, _, _, _)
SendLoop(all_chat_ids, outcomes, i, users) ==
  IF i > Len(all_chat_ids)
    THEN [success_count |-> 0, users |-> users, attempts |-> << >>]
    ELSE LET chat_id == all_chat_ids[i]
             after   == IF Deregisters(outcomes[i])
                          THEN remove_invalid_user(users, chat_id)
                          ELSE users
             rest    == SendLoop(all_chat_ids, outcomes, i + 1, after)
         IN  [success_count |-> rest.success_count + (IF Succeeds(outcomes[i]) THEN 1 ELSE 0),
              users         |-> rest.users,
              attempts      |-> << chat_id >> \o rest.attempts]

\* send_message with the loop left at the first failed delivery
send_message_abort(users, main_chat_id, outcomes) ==
  LET full         == BroadcastList(users, main_chat_id)
      failed       == {i \in DOMAIN full : ~Succeeds(outcomes[i])}
      last         == IF failed = {} THEN Len(full)
                      ELSE CHOOSE i \in failed : \A j \in failed : i <= j
      all_chat_ids == SubSeq(full, 1, last)
      r == SendLoop(all_chat_ids, outcomes, 1, users)
  IN  [result |-> r.success_count > 0, success_count |-> r.success_count,
       users |-> r.users, attempts |-> r.attempts]

\* send_message answering True only when every delivery succeeded
send_message_all(users, main_chat_id, outcomes) ==
  LET all_chat_ids == BroadcastList(users, main_chat_id)
      r == SendLoop(all_chat_ids, outcomes, 1, users)
  IN  [result |-> r.success_count = Len(all_chat_ids), success_count |-> r.success_count,
       users |-> r.users, attempts |-> r.attempts]

\* send_message on an enabled notifier: result, registry afterwards and the
\* chat ids bot.send_message was called for
send_message(users, main_chat_id, outcomes) ==
  LET all_chat_ids == BroadcastList(users, main_chat_id)
      r == SendLoop(all_chat_ids, outcomes, 1, users)
  IN  [result |-> r.success_count > 0, success_count |-> r.success_count,
       users |-> r.users, attempts |-> r.attempts]

\* ------------------------------------------------------------------------
\* State
\* ------------------------------------------------------------------------
VARIABLES
  TRACKED_ADDRESSES,       \* Config.TRACKED_ADDRESSES, a list
  ENABLE_TELEGRAM_ALERTS,  \* Config.ENABLE_TELEGRAM_ALERTS
  TELEGRAM_CHAT_ID,        \* Config.TELEGRAM_CHAT_ID, 0 when not set
  enabled,                 \* TelegramNotifier.enabled
  current_positions,       \* HyperliquidTracker.current_positions
  positions_file,          \* content of POSITIONS_FILE
  pc,                      \* where run_monitoring / check_all_addresses stands:
                           \* "idle", "poll", "notify", "save", "sleep", then
                           \* "error" and "backoff" in the except clause of
                           \* run_monitoring, "cancelled" once it was stopped
                           \* from outside, "crashed" if an exception left it
  idx,                     \* position of the loop over TRACKED_ADDRESSES
  all_changes,             \* all_changes of check_all_addresses
  sent,                    \* changes already handed to send_position_change
  user_chat_ids,           \* user_chat_ids of the tracker's notifier
  user_chat_ids_file,      \* content of user_chat_ids.json
  dynamic_addresses,       \* dynamic_addresses of the command handler's notifier
  dynamic_addresses_file,  \* content of dynamic_addresses.json
  h_user_chat_ids,         \* user_chat_ids of the command handler's notifier
  reply,                   \* the last reply_text of the command handler
  registry_at_start,       \* history: the tracked addresses when the cycle began
  cycle_start_positions,   \* history: current_positions when the cycle began
  processed,               \* history: the addresses the loop has handled
  dispatched,              \* history: changes given to send_position_change
  broadcasts,              \* history: changes given to send_message
  delivered,               \* history: bot.send_message calls of this cycle
  writes,                  \* history: _save_positions calls of this cycle
  det,                     \* arguments and result of a _detect_changes call
  bcast,                   \* arguments and result of the last send_message call
  io,                      \* what the last _save_positions / _load_positions did
  checked,                 \* argument and result of a _validate_address call
  boot,                    \* what TelegramNotifier.__init__ found and registered
  alias                    \* argument and result of a _generate_unique_alias call

config == << TRACKED_ADDRESSES, ENABLE_TELEGRAM_ALERTS, TELEGRAM_CHAT_ID, enabled >>

tracker == << current_positions, positions_file, pc, idx, all_changes, sent >>

subscribers == << user_chat_ids, user_chat_ids_file >>

history == << cycle_start_positions, registry_at_start, processed, dispatched,
             broadcasts, delivered, writes >>

handler == << dynamic_addresses, dynamic_addresses_file, h_user_chat_ids, reply >>

\* The records of calls made outside the polling cycle
probes == << bcast, io, checked, boot, alias >>

vars == << config, tracker, subscribers, handler, history, det, probes >>

\* Every position map over the model's symbols, filtered or not
PositionsOf(coin) == { MakePosition(r) : r \in RawFor(coin) }

PositionMaps ==
  UNION { {m \in [D -> UNION {PositionsOf(c) : c \in Symbols}] :
             \A c \in D : m[c].symbol = c} : D \in SUBSET Symbols }

Range(f) == {f[i] : i \in DOMAIN f}

\* The keys of an address -> label dict kept as a list of entries
Keys(entries) == {entries[i].address : i \in DOMAIN entries}

NoDetectCall ==
  [address |-> "", old |-> EmptyDict, new |-> EmptyDict, called |-> FALSE, changes |-> << >>]

\* No send_message call yet
NoBroadcast ==
  [called |-> FALSE, recipients |-> << >>, outcomes |-> << >>, attempts |-> << >>,
   result |-> FALSE, success_count |-> 0, before |-> << >>, file_before |-> << >>,
   after |-> << >>, file_after |-> << >>]

\* No _save_positions or _load_positions yet
NoTransfer == [phase |-> "none", saved |-> EmptyDict, restored |-> FALSE]

\* No _validate_address call yet
NoCheck == [text |-> << >>, called |-> FALSE, result |-> FALSE]

\* TelegramNotifier.__init__ not followed
NoBoot == [phase |-> "none", loaded |-> << >>]

\* No _generate_unique_alias call yet
NoAlias == [called |-> FALSE, used |-> {}, label |-> ""]

\* The call records before any call
ProbesAtRest ==
  /\ bcast = NoBroadcast
  /\ io = NoTransfer
  /\ checked = NoCheck
  /\ boot = NoBoot
  /\ alias = NoAlias

\* ------------------------------------------------------------------------
\* Start-up (TelegramNotifier.__init__, HyperliquidTracker.__init__)
\* ------------------------------------------------------------------------
\* The state after construction with no positions file: the configuration
\* is one of the given choices (a main chat id with the stored subscriber
\* file), and the main chat id is registered when it is set and nobody is.
Subscribers(main_chat_id, stored) == [chat_id |-> main_chat_id, stored |-> stored]

\* The registry that registers the main chat id whenever one is configured
bootstrap_always(loaded, main_chat_id) ==
  IF main_chat_id # 0
    THEN add_user(loaded, main_chat_id, "MainChat", "Main User", 0)
    ELSE loaded

\* TelegramNotifier.__init__ after _load_user_chat_ids: the main chat id is
\* added as a user if it is configured and no users exist
bootstrap(loaded, main_chat_id) ==
  IF main_chat_id # 0 /\ loaded = << >>
    THEN add_user(loaded, main_chat_id, "MainChat", "Main User", 0)
    ELSE loaded

Startup(tracked_choices, subscriber_choices) ==
  /\ TRACKED_ADDRESSES \in tracked_choices
  /\ ENABLE_TELEGRAM_ALERTS \in BOOLEAN
  /\ enabled \in (IF ENABLE_TELEGRAM_ALERTS THEN BOOLEAN ELSE {FALSE})
  /\ \E choice \in subscriber_choices :
       LET users == bootstrap(choice.stored, choice.chat_id)
       IN  /\ TELEGRAM_CHAT_ID = choice.chat_id
           /\ user_chat_ids = users
           /\ h_user_chat_ids = users
           /\ user_chat_ids_file = users
  /\ dynamic_addresses = << >>
  /\ dynamic_addresses_file = << >>
  /\ reply = "none"
  /\ registry_at_start = {}
  /\ current_positions = EmptyDict
  /\ positions_file = EmptyDict
  /\ pc = "idle"
  /\ idx = 1
  /\ all_changes = << >>
  /\ sent = 0
  /\ cycle_start_positions = EmptyDict
  /\ processed = << >>
  /\ dispatched = << >>
  /\ broadcasts = << >>
  /\ delivered = << >>
  /\ writes = 0
  /\ det = NoDetectCall
  /\ ProbesAtRest

\* ------------------------------------------------------------------------
\* The polling cycle (position_tracker.py, check_all_addresses)
\* ------------------------------------------------------------------------
\* run_monitoring calls check_all_addresses: all_changes = []
StartCycle ==
  /\ pc \in {"idle", "sleep", "backoff"}
  /\ pc' = "poll"
  /\ idx' = 1
  /\ all_changes' = << >>
  /\ sent' = 0
  /\ cycle_start_positions' = current_positions
  /\ registry_at_start' = Range(TRACKED_ADDRESSES) \cup Keys(dynamic_addresses_file)
  /\ processed' = << >>
  /\ dispatched' = << >>
  /\ broadcasts' = << >>
  /\ delivered' = << >>
  /\ writes' = 0
  /\ UNCHANGED << config, current_positions, positions_file, subscribers, handler, det, probes >>

\* CheckAddress keeping the stored slice when the diff is empty
CheckAddressKeepsBaseline(response) ==
  /\ pc = "poll"
  /\ idx <= Len(TRACKED_ADDRESSES)
  /\ LET address       == TRACKED_ADDRESSES[idx]
         new_positions == get_user_positions(response)
         old_positions == GetSlice(current_positions, address)
     IN  \E order \in Orders(AllSymbols(old_positions, new_positions)) :
           LET changes == detect_changes(address, old_positions, new_positions, order)
           IN  /\ current_positions' =
                    (IF changes = << >>
                       THEN current_positions
                       ELSE SetItem(current_positions, address, new_positions))
               /\ all_changes' = all_changes \o changes
               /\ processed' = Append(processed, [address |-> address,
                                                  outcome |-> IF response.kind = "error"
                                                                THEN "error" ELSE "ok",
                                                  fetched |-> new_positions])
  /\ idx' = idx + 1
  /\ UNCHANGED << config, positions_file, pc, sent, subscribers, handler,
                  cycle_start_positions, registry_at_start, dispatched, broadcasts,
                  delivered, writes, det, probes >>

\* One iteration of the loop over TRACKED_ADDRESSES whose try block runs
\* to its end: fetch, diff against the stored slice, replace the slice
CheckAddress(response) ==
  /\ pc = "poll"
  /\ idx <= Len(TRACKED_ADDRESSES)
  /\ LET address       == TRACKED_ADDRESSES[idx]
         new_positions == get_user_positions(response)
         old_positions == GetSlice(current_positions, address)
     IN  \E order \in Orders(AllSymbols(old_positions, new_positions)) :
           /\ current_positions' = SetItem(current_positions, address, new_positions)
           /\ all_changes' = all_changes \o
                               detect_changes(address, old_positions, new_positions, order)
           /\ processed' = Append(processed, [address |-> address,
                                              outcome |-> IF response.kind = "error"
                                                            THEN "error" ELSE "ok",
                                              fetched |-> new_positions])
  /\ idx' = idx + 1
  /\ UNCHANGED << config, positions_file, pc, sent, subscribers, handler,
                  cycle_start_positions, registry_at_start, dispatched, broadcasts,
                  delivered, writes, det, probes >>

\* CheckAddressRaises with the exception leaving the loop
CheckAddressRaisesAbort ==
  /\ pc = "poll"
  /\ idx <= Len(TRACKED_ADDRESSES)
  /\ processed' = Append(processed, [address |-> TRACKED_ADDRESSES[idx],
                                     outcome |-> "exception",
                                     fetched |-> EmptyDict])
  /\ idx' = Len(TRACKED_ADDRESSES) + 1
  /\ UNCHANGED << config, current_positions, positions_file, pc, all_changes, sent,
                  subscribers, handler, cycle_start_positions, registry_at_start,
                  dispatched, broadcasts, delivered, writes, det, probes >>

\* One iteration whose try block raises before the slice is replaced: the
\* except clause logs the error and the loop goes on
CheckAddressRaises ==
  /\ pc = "poll"
  /\ idx <= Len(TRACKED_ADDRESSES)
  /\ processed' = Append(processed, [address |-> TRACKED_ADDRESSES[idx],
                                     outcome |-> "exception",
                                     fetched |-> EmptyDict])
  /\ idx' = idx + 1
  /\ UNCHANGED << config, current_positions, positions_file, pc, all_changes, sent,
                  subscribers, handler, cycle_start_positions, registry_at_start,
                  dispatched, broadcasts, delivered, writes, det, probes >>

\* After the loop, saving whether or not there were changes
AfterLoopAlwaysSaves ==
  /\ pc = "poll"
  /\ idx > Len(TRACKED_ADDRESSES)
  /\ pc' = IF all_changes # << >> /\ ENABLE_TELEGRAM_ALERTS /\ enabled THEN "notify"
           ELSE "save"
  /\ UNCHANGED << config, current_positions, positions_file, idx, all_changes, sent,
                  subscribers, handler, history, det, probes >>

\* After the loop: nothing to do without changes; otherwise notify when
\* alerts are on and the notifier is enabled, then save
AfterLoop ==
  /\ pc = "poll"
  /\ idx > Len(TRACKED_ADDRESSES)
  /\ pc' = IF all_changes = << >> THEN "sleep"
           ELSE IF ENABLE_TELEGRAM_ALERTS /\ enabled THEN "notify"
           ELSE "save"
  /\ UNCHANGED << config, current_positions, positions_file, idx, all_changes, sent,
                  subscribers, handler, history, det, probes >>

\* The bot.send_message calls of one broadcast, tagged with the change
Tagged(attempts, change) ==
  [i \in DOMAIN attempts |-> [chat_id |-> attempts[i], change |-> change]]

\* send_position_change without the skip of 'opened' changes
send_position_change_all(change, outcome_choices) ==
  /\ dispatched' = Append(dispatched, change)
  /\ IF ~TELEGRAM_SEND_POSITION_CHANGES
       THEN UNCHANGED << broadcasts, delivered, subscribers >>
       ELSE \E outcomes \in [1..Len(BroadcastList(user_chat_ids, TELEGRAM_CHAT_ID))
                               -> outcome_choices] :
              LET r == send_message(user_chat_ids, TELEGRAM_CHAT_ID, outcomes)
              IN  /\ broadcasts' = Append(broadcasts, change)
                  /\ delivered' = delivered \o Tagged(r.attempts, change)
                  /\ user_chat_ids' = r.users
                  /\ user_chat_ids_file' = IF r.users # user_chat_ids
                                             THEN r.users
                                             ELSE user_chat_ids_file

\* send_position_change: 'opened' changes are skipped, any other change is
\* formatted and broadcast with send_message
send_position_change(change, outcome_choices) ==
  /\ dispatched' = Append(dispatched, change)
  /\ IF ~TELEGRAM_SEND_POSITION_CHANGES \/ change.change_type = "opened"
       THEN UNCHANGED << broadcasts, delivered, subscribers >>
       ELSE \E outcomes \in [1..Len(BroadcastList(user_chat_ids, TELEGRAM_CHAT_ID))
                               -> outcome_choices] :
              LET r == send_message(user_chat_ids, TELEGRAM_CHAT_ID, outcomes)
              IN  /\ broadcasts' = Append(broadcasts, change)
                  /\ delivered' = delivered \o Tagged(r.attempts, change)
                  /\ user_chat_ids' = r.users
                  /\ user_chat_ids_file' = IF r.users # user_chat_ids
                                             THEN r.users
                                             ELSE user_chat_ids_file

\* len(all_changes) == 1: send_position_change(all_changes[0])
SendSingle(outcome_choices) ==
  /\ pc = "notify"
  /\ Len(all_changes) = 1
  /\ send_position_change(all_changes[1], outcome_choices)
  /\ sent' = 1
  /\ pc' = "save"
  /\ UNCHANGED << config, current_positions, positions_file, idx, all_changes,
                  handler, cycle_start_positions, registry_at_start, processed, writes,
                  det, probes >>

\* SendMultiple handing over the first change only
SendMultipleOnce(outcome_choices) ==
  /\ pc = "notify"
  /\ Len(all_changes) # 1
  /\ sent < Len(all_changes)
  /\ send_position_change(all_changes[sent + 1], outcome_choices)
  /\ sent' = sent + 1
  /\ pc' = "save"
  /\ UNCHANGED << config, current_positions, positions_file, idx, all_changes,
                  handler, cycle_start_positions, registry_at_start, processed, writes,
                  det, probes >>

\* send_multiple_changes going through the list from its end
SendMultipleReversed(outcome_choices) ==
  /\ pc = "notify"
  /\ Len(all_changes) # 1
  /\ sent < Len(all_changes)
  /\ send_position_change(all_changes[Len(all_changes) - sent], outcome_choices)
  /\ sent' = sent + 1
  /\ pc' = IF sent + 1 = Len(all_changes) THEN "save" ELSE "notify"
  /\ UNCHANGED << config, current_positions, positions_file, idx, all_changes,
                  handler, cycle_start_positions, registry_at_start, processed, writes,
                  det, probes >>

\* Otherwise send_multiple_changes: one send_position_change per change,
\* in list order
SendMultiple(outcome_choices) ==
  /\ pc = "notify"
  /\ Len(all_changes) # 1
  /\ sent < Len(all_changes)
  /\ send_position_change(all_changes[sent + 1], outcome_choices)
  /\ sent' = sent + 1
  /\ pc' = IF sent + 1 = Len(all_changes) THEN "save" ELSE "notify"
  /\ UNCHANGED << config, current_positions, positions_file, idx, all_changes,
                  handler, cycle_start_positions, registry_at_start, processed, writes,
                  det, probes >>

\* _save_positions, then check_all_addresses returns and run_monitoring
\* sleeps
SavePositions ==
  /\ pc = "save"
  /\ positions_file' = current_positions
  /\ pc' = "sleep"
  /\ writes' = writes + 1
  /\ UNCHANGED << config, current_positions, idx, all_changes, sent, subscribers,
                  handler, cycle_start_positions, registry_at_start, processed,
                  dispatched, broadcasts, delivered, det, probes >>

\* ------------------------------------------------------------------------
\* Address validation (telegram_bot.py, _validate_address)
\* ------------------------------------------------------------------------
HexDigits ==
  {"0", "1", "2", "3", "4", "5", "6", "7", "8", "9",
   "a", "b", "c", "d", "e", "f", "A", "B", "C", "D", "E", "F"}

Whitespace == {" ", "\t", "\n"}

Repeat(ch, n) == [i \in 1..n |-> ch]

\* str.strip()
RECURSIVE LStrip(_)
LStrip(t) == IF t # << >> /\ Head(t) \in Whitespace THEN LStrip(Tail(t)) ELSE t

RECURSIVE RStrip(_)
RStrip(t) ==
  IF t # << >> /\ t[Len(t)] \in Whitespace THEN RStrip(SubSeq(t, 1, Len(t) - 1)) ELSE t

Strip(t) == RStrip(LStrip(t))

\* Whether int(t, 16) returns instead of raising ValueError: surrounding
\* whitespace, one sign and one 0x/0X prefix are accepted, and the digits
\* may be separated by single underscores
ParsesAsHex(t) ==
  LET stripped == Strip(t)
      unsigned == IF stripped # << >> /\ Head(stripped) \in {"+", "-"}
                    THEN Tail(stripped) ELSE stripped
      prefixed == Len(unsigned) >= 2 /\ unsigned[1] = "0" /\ unsigned[2] \in {"x", "X"}
      body     == IF prefixed THEN SubSeq(unsigned, 3, Len(unsigned)) ELSE unsigned
      digits   == IF prefixed /\ body # << >> /\ Head(body) = "_" THEN Tail(body) ELSE body
  IN  /\ digits # << >>
      /\ \A i \in DOMAIN digits : digits[i] \in HexDigits \cup {"_"}
      /\ digits[1] # "_"
      /\ digits[Len(digits)] # "_"
      /\ \A i \in 1..(Len(digits) - 1) : ~(digits[i] = "_" /\ digits[i + 1] = "_")

\* _validate_address on the characters of the address
ValidAddressText(t) ==
  /\ t # << >>
  /\ Len(t) >= 2 /\ t[1] = "0" /\ t[2] = "x"
  /\ Len(t) = 42
  /\ ParsesAsHex(SubSeq(t, 3, Len(t)))

\* The characters of the addresses the model names
AddressText(address) ==
  CASE address = "0xa1"   -> << "0", "x" >> \o Repeat("a", 39) \o << "1" >>
    [] address = "0xa2"   -> << "0", "x" >> \o Repeat("a", 39) \o << "2" >>
    [] address = "0xshort" -> << "0", "x" >> \o Repeat("a", 39)
    [] address = "0xsigned" -> << "0", "x", "+" >> \o Repeat("a", 39)
    [] OTHER              -> << >>

\* The addresses of the model that _validate_address accepts
KnownAddresses == {"0xa1", "0xa2", "0xshort", "0xsigned"}

WellFormedAddresses == {a \in KnownAddresses : ValidAddressText(AddressText(a))}

validate_address(address) == address \in WellFormedAddresses

\* ------------------------------------------------------------------------
\* Aliases (telegram_bot.py, _generate_unique_alias)
\* ------------------------------------------------------------------------
\* "<Adjective> <Noun>" combinations, the same with a two-digit number, and
\* the time-derived "Trader HHMMSS"
PlainAliases == {"Swift Whale", "Bold Shark"}

NumberedAliases == {"Swift Whale 10", "Bold Shark 99"}

TimeAliases == {"Trader 120000"}

\* The labels _generate_unique_alias can return: a plain alias not yet in
\* use; after max_attempts draws that were all in use, a numbered alias not
\* yet in use; after max_attempts more, the time-derived label, unchecked
generate_unique_alias(used) ==
  (PlainAliases \ used)
    \cup (IF PlainAliases \cap used # {}
            THEN (NumberedAliases \ used)
                   \cup (IF NumberedAliases \cap used # {} THEN TimeAliases ELSE {})
            ELSE {})

\* ------------------------------------------------------------------------
\* Commands (telegram_bot.py, handle_add_command / handle_remove_command)
\* ------------------------------------------------------------------------
NoArgs == [given |-> FALSE]

\* "/add <address>:<label>"; label NoLabel when the argument has no colon
NoLabel == "<none>"

AddArgs(address, label) == [given |-> TRUE, address |-> address, label |-> label]

RemoveArgs(address) == [given |-> TRUE, address |-> address]

Labels(entries) == {entries[i].label : i \in DOMAIN entries}

\* The notification with a deregistration that is not written to the file
AnnounceUnsaved(users, outcome_choices) ==
  IF ~enabled
    THEN /\ h_user_chat_ids' = users
         /\ user_chat_ids_file' = users
    ELSE \E outcomes \in [1..Len(BroadcastList(users, TELEGRAM_CHAT_ID))
                            -> outcome_choices] :
           LET r == send_message(users, TELEGRAM_CHAT_ID, outcomes)
           IN  /\ h_user_chat_ids' = r.users
               /\ user_chat_ids_file' = users

\* The notification send_message of the handler's notifier after a change
\* of the address list: nothing unless the notifier is enabled
Announce(users, outcome_choices) ==
  IF ~enabled
    THEN /\ h_user_chat_ids' = users
         /\ user_chat_ids_file' = users
    ELSE \E outcomes \in [1..Len(BroadcastList(users, TELEGRAM_CHAT_ID))
                            -> outcome_choices] :
           LET r == send_message(users, TELEGRAM_CHAT_ID, outcomes)
           IN  /\ h_user_chat_ids' = r.users
               /\ user_chat_ids_file' = r.users

\* handle_add_command storing the label without looking for the address
\* first
AddCommandRelabel(user_id, username, first_name, args, now, outcome_choices) ==
  LET users == add_user(h_user_chat_ids, user_id, username, first_name, now)
  IN  /\ IF ~args.given
           THEN /\ reply' = "usage"
                /\ h_user_chat_ids' = users
                /\ user_chat_ids_file' = users
                /\ UNCHANGED << dynamic_addresses, dynamic_addresses_file >>
           ELSE \E label \in (IF args.label = NoLabel
                                THEN generate_unique_alias(Labels(dynamic_addresses))
                                ELSE {args.label}) :
                  IF ~validate_address(args.address)
                    THEN /\ reply' = "invalid"
                         /\ h_user_chat_ids' = users
                         /\ user_chat_ids_file' = users
                         /\ UNCHANGED << dynamic_addresses, dynamic_addresses_file >>
                  ELSE /\ dynamic_addresses' =
                            (IF args.address \in Keys(dynamic_addresses)
                               THEN [i \in DOMAIN dynamic_addresses |->
                                       IF dynamic_addresses[i].address = args.address
                                         THEN [address |-> args.address, label |-> label]
                                         ELSE dynamic_addresses[i]]
                               ELSE Append(dynamic_addresses,
                                           [address |-> args.address, label |-> label]))
                       /\ dynamic_addresses_file' = dynamic_addresses'
                       /\ reply' = "added"
                       /\ Announce(users, outcome_choices)
      /\ UNCHANGED << config, tracker, user_chat_ids, history, det, probes >>

\* handle_add_command
AddCommand(user_id, username, first_name, args, now, outcome_choices) ==
  LET users == add_user(h_user_chat_ids, user_id, username, first_name, now)
  IN  /\ IF ~args.given
           THEN /\ reply' = "usage"
                /\ h_user_chat_ids' = users
                /\ user_chat_ids_file' = users
                /\ UNCHANGED << dynamic_addresses, dynamic_addresses_file >>
           ELSE \E label \in (IF args.label = NoLabel
                                THEN generate_unique_alias(Labels(dynamic_addresses))
                                ELSE {args.label}) :
                  IF ~validate_address(args.address)
                    THEN /\ reply' = "invalid"
                         /\ h_user_chat_ids' = users
                         /\ user_chat_ids_file' = users
                         /\ UNCHANGED << dynamic_addresses, dynamic_addresses_file >>
                  ELSE IF args.address \in Keys(dynamic_addresses)
                    THEN /\ reply' = "already_tracked"
                         /\ h_user_chat_ids' = users
                         /\ user_chat_ids_file' = users
                         /\ UNCHANGED << dynamic_addresses, dynamic_addresses_file >>
                  ELSE /\ dynamic_addresses' =
                            Append(dynamic_addresses,
                                   [address |-> args.address, label |-> label])
                       /\ dynamic_addresses_file' = dynamic_addresses'
                       /\ reply' = "added"
                       /\ Announce(users, outcome_choices)
      /\ UNCHANGED << config, tracker, user_chat_ids, history, det, probes >>

\* handle_remove_command looking at its argument before add_user
RemoveCommandValidatesFirst(user_id, username, first_name, args, now, outcome_choices) ==
  LET users == add_user(h_user_chat_ids, user_id, username, first_name, now)
  IN  /\ IF ~args.given
           THEN /\ reply' = "usage"
                /\ UNCHANGED << h_user_chat_ids, user_chat_ids_file >>
                /\ UNCHANGED << dynamic_addresses, dynamic_addresses_file >>
         ELSE IF ~validate_address(args.address)
           THEN /\ reply' = "invalid"
                /\ UNCHANGED << h_user_chat_ids, user_chat_ids_file >>
                /\ UNCHANGED << dynamic_addresses, dynamic_addresses_file >>
         ELSE IF args.address \notin Keys(dynamic_addresses)
           THEN /\ reply' = "not_tracked"
                /\ UNCHANGED << h_user_chat_ids, user_chat_ids_file >>
                /\ UNCHANGED << dynamic_addresses, dynamic_addresses_file >>
         ELSE /\ dynamic_addresses' =
                   SelectSeq(dynamic_addresses, LAMBDA e : e.address # args.address)
              /\ dynamic_addresses_file' = dynamic_addresses'
              /\ reply' = "removed"
              /\ Announce(users, outcome_choices)
      /\ UNCHANGED << config, tracker, user_chat_ids, history, det, probes >>

\* handle_remove_command
RemoveCommand(user_id, username, first_name, args, now, outcome_choices) ==
  LET users == add_user(h_user_chat_ids, user_id, username, first_name, now)
  IN  /\ IF ~args.given
           THEN /\ reply' = "usage"
                /\ h_user_chat_ids' = users
                /\ user_chat_ids_file' = users
                /\ UNCHANGED << dynamic_addresses, dynamic_addresses_file >>
         ELSE IF ~validate_address(args.address)
           THEN /\ reply' = "invalid"
                /\ h_user_chat_ids' = users
                /\ user_chat_ids_file' = users
                /\ UNCHANGED << dynamic_addresses, dynamic_addresses_file >>
         ELSE IF args.address \notin Keys(dynamic_addresses)
           THEN /\ reply' = "not_tracked"
                /\ h_user_chat_ids' = users
                /\ user_chat_ids_file' = users
                /\ UNCHANGED << dynamic_addresses, dynamic_addresses_file >>
         ELSE /\ dynamic_addresses' =
                   SelectSeq(dynamic_addresses, LAMBDA e : e.address # args.address)
              /\ dynamic_addresses_file' = dynamic_addresses'
              /\ reply' = "removed"
              /\ Announce(users, outcome_choices)
      /\ UNCHANGED << config, tracker, user_chat_ids, history, det, probes >>

\* ------------------------------------------------------------------------
\* The tracker process
\* ------------------------------------------------------------------------
User1 == UserInfo(1, "alice", "Alice", 0)

User2 == UserInfo(2, "bob", "Bob", 0)

Init ==
  Startup({ << >>, << "0xa1", "0xa2" >> },
          { Subscribers(0, << >>), Subscribers(1, << >>),
            Subscribers(1, << User1, User2 >>) })

Next ==
  \/ StartCycle
  \/ \E response \in CycleResponses : CheckAddress(response)
  \/ CheckAddressRaises
  \/ AfterLoop
  \/ SendSingle(DeliverOutcomes)
  \/ SendMultiple(DeliverOutcomes)
  \/ SavePositions

Spec == Init /\ [][Next]_vars

\* ------------------------------------------------------------------------
\* The tracker process and the command handler process side by side
\* ------------------------------------------------------------------------
SystemResponses ==
  { FetchError,
    PayloadOf({RawEntry("ETH", 1, 1000, 10), RawEntry("BTC", 0, 1200, 0)}),
    PayloadOf({RawEntry("ETH", -1, 1400, -20), RawEntry("BTC", 2, 1200, 40)}) }

InitSystem == Startup({ << >>, << "0xa1" >> }, { Subscribers(1, << >>) })

NextSystem ==
  \/ StartCycle
  \/ \E response \in SystemResponses : CheckAddress(response)
  \/ CheckAddressRaises
  \/ AfterLoop
  \/ SendSingle({"ok", "chat_not_found"})
  \/ SendMultiple({"ok", "chat_not_found"})
  \/ SavePositions
  \/ \E args \in {NoArgs, AddArgs("0xa1", "Whale"), AddArgs("0xa2", NoLabel),
                  AddArgs("0xshort", NoLabel)} :
       AddCommand(7, "carol", "Carol", args, 1, {"ok"})
  \/ \E args \in {NoArgs, RemoveArgs("0xa1"), RemoveArgs("0xa2"), RemoveArgs("0xshort")} :
       RemoveCommand(7, "carol", "Carol", args, 1, {"ok"})

SpecSystem == InitSystem /\ [][NextSystem]_vars

\* ------------------------------------------------------------------------
\* The change detector applied to arbitrary inputs
\* ------------------------------------------------------------------------
InitDetect ==
  /\ det \in { [address |-> a, old |-> o, new |-> n, called |-> FALSE, changes |-> << >>] :
                 a \in Addresses, o \in PositionMaps, n \in PositionMaps }
  /\ TRACKED_ADDRESSES = << >>
  /\ ENABLE_TELEGRAM_ALERTS = FALSE
  /\ enabled = FALSE
  /\ TELEGRAM_CHAT_ID = 0
  /\ user_chat_ids = << >>
  /\ user_chat_ids_file = << >>
  /\ h_user_chat_ids = << >>
  /\ dynamic_addresses = << >>
  /\ dynamic_addresses_file = << >>
  /\ reply = "none"
  /\ registry_at_start = {}
  /\ current_positions = EmptyDict
  /\ positions_file = EmptyDict
  /\ pc = "idle"
  /\ idx = 1
  /\ all_changes = << >>
  /\ sent = 0
  /\ cycle_start_positions = EmptyDict
  /\ processed = << >>
  /\ dispatched = << >>
  /\ broadcasts = << >>
  /\ delivered = << >>
  /\ writes = 0
  /\ ProbesAtRest

DetectCall ==
  /\ ~det.called
  /\ \E order \in Orders(AllSymbols(det.old, det.new)) :
       det' = [det EXCEPT !.called = TRUE,
                          !.changes = detect_changes(det.address, det.old, det.new, order)]
  /\ UNCHANGED << config, tracker, subscribers, handler, history, probes >>

NextDetect == DetectCall

SpecDetect == InitDetect /\ [][NextDetect]_vars

\* ------------------------------------------------------------------------
\* Properties of the change detector
\* ------------------------------------------------------------------------
\* The changes of a sequence that name a symbol
ChangesNaming(changes, symbol) == {i \in DOMAIN changes : changes[i].symbol = symbol}

\* C1: a symbol present in exactly one of previous/current gets exactly one
\* change: 'opened' with the current market value when it is only in
\* current, 'closed' with the previous market value when it is only in
\* previous.
C1_OpenedClosed ==
  det.called =>
    \A s \in Symbols :
      /\ (s \in DOMAIN det.new /\ s \notin DOMAIN det.old) =>
           /\ Cardinality(ChangesNaming(det.changes, s)) = 1
           /\ \A i \in ChangesNaming(det.changes, s) :
                /\ det.changes[i].change_type = "opened"
                /\ det.changes[i].change_amount = det.new[s].market_value
      /\ (s \in DOMAIN det.old /\ s \notin DOMAIN det.new) =>
           /\ Cardinality(ChangesNaming(det.changes, s)) = 1
           /\ \A i \in ChangesNaming(det.changes, s) :
                /\ det.changes[i].change_type = "closed"
                /\ det.changes[i].change_amount = det.old[s].market_value

\* Detect has run on a pair where one symbol was opened and another closed
C1_Witness ==
  /\ det.called
  /\ \E s, t \in Symbols :
       /\ s \in DOMAIN det.new /\ s \notin DOMAIN det.old
       /\ t \in DOMAIN det.old /\ t \notin DOMAIN det.new
       /\ det.old[t].market_value > det.old[t].size
  /\ Len(det.changes) = 2

\* C2: a symbol present in both gets nothing when |delta| is below
\* MIN_CHANGE_THRESHOLD and exactly one change when |delta| reaches it
\* (equality included): 'increased' for a positive delta, 'decreased' for a
\* negative one, with magnitude |delta|.
C2_Threshold ==
  det.called =>
    \A s \in (DOMAIN det.old) \cap (DOMAIN det.new) :
      LET delta == det.new[s].market_value - det.old[s].market_value
      IN  /\ Abs(delta) < MIN_CHANGE_THRESHOLD => ChangesNaming(det.changes, s) = {}
          /\ Abs(delta) >= MIN_CHANGE_THRESHOLD =>
               /\ Cardinality(ChangesNaming(det.changes, s)) = 1
               /\ \A i \in ChangesNaming(det.changes, s) :
                    /\ delta > 0 => det.changes[i].change_type = "increased"
                    /\ delta < 0 => det.changes[i].change_type = "decreased"
                    /\ det.changes[i].change_amount = Abs(delta)

\* Detect has run on a pair where a symbol moved by exactly the threshold
C2_Witness ==
  /\ det.called
  /\ \E s \in (DOMAIN det.old) \cap (DOMAIN det.new) :
       /\ det.old[s].market_value - det.new[s].market_value = MIN_CHANGE_THRESHOLD
       /\ \E i \in DOMAIN det.changes :
            det.changes[i].symbol = s /\ det.changes[i].change_type = "decreased"

\* C4: every change Detect produces is well formed: 'opened' has no previous
\* and a current position, 'closed' a previous and no current position,
\* 'increased'/'decreased' have both, and the magnitude is never negative.
C4_WellFormed ==
  det.called =>
    \A i \in DOMAIN det.changes :
      LET c == det.changes[i]
      IN  /\ c.change_type \in {"opened", "closed", "increased", "decreased"}
          /\ c.change_type = "opened" => c.old_position = None /\ c.new_position # None
          /\ c.change_type = "closed" => c.old_position # None /\ c.new_position = None
          /\ c.change_type \in {"increased", "decreased"} =>
               c.old_position # None /\ c.new_position # None
          /\ c.change_amount >= 0

\* Detect has reported a decrease, whose signed delta is negative
C4_Witness ==
  /\ det.called
  /\ \E i \in DOMAIN det.changes :
       /\ det.changes[i].change_type = "decreased"
       /\ det.changes[i].new_position.market_value
            < det.changes[i].old_position.market_value

\* The symbols Detect must report: opened, closed or moved by the threshold
Qualifying(old, new) ==
  {s \in Symbols :
     \/ s \in DOMAIN new /\ s \notin DOMAIN old
     \/ s \in DOMAIN old /\ s \notin DOMAIN new
     \/ /\ s \in DOMAIN old /\ s \in DOMAIN new
        /\ Abs(new[s].market_value - old[s].market_value) >= MIN_CHANGE_THRESHOLD}

\* C5: Detect returns exactly one change per qualifying symbol and nothing
\* else: as many changes as qualifying symbols, no symbol twice, and no
\* symbol outside previous and current.
C5_OnePerSymbol ==
  det.called =>
    /\ Len(det.changes) = Cardinality(Qualifying(det.old, det.new))
    /\ \A i, j \in DOMAIN det.changes :
         det.changes[i].symbol = det.changes[j].symbol => i = j
    /\ \A i \in DOMAIN det.changes :
         /\ det.changes[i].symbol \in (DOMAIN det.old) \cup (DOMAIN det.new)
         /\ det.changes[i].symbol \in Qualifying(det.old, det.new)
         /\ det.changes[i].address = det.address

\* Detect has run on previous {ETH}, current {ETH larger, BTC}: the result
\* is an increase of ETH and an opening of BTC
C5_Witness ==
  /\ det.called
  /\ DOMAIN det.old = {"ETH"}
  /\ DOMAIN det.new = {"ETH", "BTC"}
  /\ {<<det.changes[i].symbol, det.changes[i].change_type, det.changes[i].change_amount>> :
        i \in DOMAIN det.changes}
       = { <<"ETH", "increased", det.new["ETH"].market_value - det.old["ETH"].market_value>>,
           <<"BTC", "opened", det.new["BTC"].market_value>> }

\* ------------------------------------------------------------------------
\* Properties of the polling cycle
\* ------------------------------------------------------------------------
\* The loop over TRACKED_ADDRESSES of the current cycle has ended
LoopDone == pc \in {"notify", "save", "sleep"}

\* The changes of the current cycle for one address, in order
ChangesOf(address) == SelectSeq(all_changes, LAMBDA c : c.address = address)

AlertsOn == ENABLE_TELEGRAM_ALERTS /\ enabled

\* Detect(address, S, S) is empty for every map S, address and order
SelfDiffEmpty ==
  \A a \in Addresses : \A S \in PositionMaps : \A order \in Orders(AllSymbols(S, S)) :
    detect_changes(a, S, S, order) = << >>

\* C3: Detect(address, S, S) is empty for every position map S, and a cycle
\* whose fetch returns exactly the stored slice emits no change for that
\* address.
C3_SelfDiffQuiet ==
  /\ SelfDiffEmpty
  /\ \A j \in DOMAIN processed :
       (/\ processed[j].outcome # "exception"
        /\ processed[j].fetched = GetSlice(cycle_start_positions, processed[j].address))
         => ChangesOf(processed[j].address) = << >>

\* A cycle has fetched, for an address with stored positions, exactly the
\* stored slice, and holds no change for it
C3_Witness ==
  \E j \in DOMAIN processed :
    /\ processed[j].outcome = "ok"
    /\ processed[j].fetched # EmptyDict
    /\ processed[j].fetched = GetSlice(cycle_start_positions, processed[j].address)
    /\ ChangesOf(processed[j].address) = << >>
    /\ all_changes # << >>

\* C6: an address whose fetch failed keeps its stored slice and gets no
\* change in that cycle.
C6_FetchFailureSkips ==
  \A j \in DOMAIN processed :
    processed[j].outcome = "error" =>
      /\ GetSlice(current_positions, processed[j].address)
           = GetSlice(cycle_start_positions, processed[j].address)
      /\ ChangesOf(processed[j].address) = << >>

\* C7: whatever happens to one address (fetch failure or exception), every
\* tracked address is handled in the cycle, in list order, and every address
\* whose iteration did not raise is diffed against its stored slice and
\* stored.
C7_FailureIsolated ==
  /\ pc = "poll" => Len(processed) = idx - 1
  /\ LoopDone => Len(processed) = Len(TRACKED_ADDRESSES)
  /\ \A j \in DOMAIN processed :
       /\ j <= Len(TRACKED_ADDRESSES)
       /\ processed[j].address = TRACKED_ADDRESSES[j]
       /\ processed[j].outcome # "exception" =>
            LET a     == processed[j].address
                start == GetSlice(cycle_start_positions, a)
            IN  /\ GetSlice(current_positions, a) = processed[j].fetched
                /\ \E order \in Orders(AllSymbols(start, processed[j].fetched)) :
                     ChangesOf(a) = detect_changes(a, start, processed[j].fetched, order)

\* The first address raised, and the second was fetched, diffed and stored
C7_Witness ==
  /\ LoopDone
  /\ Len(processed) = 2
  /\ processed[1].outcome = "exception"
  /\ processed[2].outcome = "ok"
  /\ processed[2].fetched # EmptyDict
  /\ current_positions[processed[2].address] = processed[2].fetched
  /\ ChangesOf(processed[2].address) # << >>

\* C8: every address of the registry (configured or added with the add
\* command) at the start of a cycle is fetched in that cycle.
C8_RegistryPolled ==
  LoopDone => registry_at_start \subseteq {processed[j].address : j \in DOMAIN processed}

OpenedRecorded ==
  \A i \in DOMAIN all_changes :
    all_changes[i].change_type = "opened" =>
      /\ Get(GetSlice(current_positions, all_changes[i].address), all_changes[i].symbol)
           = all_changes[i].new_position
      /\ pc = "sleep" =>
           Get(GetSlice(positions_file, all_changes[i].address), all_changes[i].symbol)
             = all_changes[i].new_position

NeverDeliverOpened ==
  \A i \in DOMAIN delivered : delivered[i].change.change_type # "opened"

\* The changes of the cycle other than 'opened'
NonOpened == SelectSeq(all_changes, LAMBDA c : c.change_type # "opened")

ChatIds(users) == {users[i].chat_id : i \in DOMAIN users}

InitBroadcast ==
  Startup({ << >> },
          { Subscribers(0, << >>), Subscribers(9, << >>),
            Subscribers(0, << User2, User1 >>),
            Subscribers(9, << User1, User2 >>) })

\* send_message: False at once when the notifier is not enabled; otherwise
\* one bot.send_message per chat id of the list built at the start
Broadcast(outcome_choices) ==
  /\ IF ~enabled
       THEN /\ bcast' = [called |-> TRUE, recipients |-> << >>, outcomes |-> << >>,
                         attempts |-> << >>, result |-> FALSE, success_count |-> 0,
                         before |-> user_chat_ids, file_before |-> user_chat_ids_file,
                         after |-> user_chat_ids, file_after |-> user_chat_ids_file]
            /\ UNCHANGED subscribers
       ELSE \E outcomes \in [1..Len(BroadcastList(user_chat_ids, TELEGRAM_CHAT_ID))
                               -> outcome_choices] :
              LET r == send_message(user_chat_ids, TELEGRAM_CHAT_ID, outcomes)
              IN  /\ user_chat_ids' = r.users
                  /\ user_chat_ids_file' = IF r.users # user_chat_ids
                                             THEN r.users
                                             ELSE user_chat_ids_file
                  /\ bcast' = [called |-> TRUE,
                               recipients |-> BroadcastList(user_chat_ids, TELEGRAM_CHAT_ID),
                               outcomes |-> outcomes,
                               attempts |-> r.attempts,
                               result |-> r.result,
                               success_count |-> r.success_count,
                               before |-> user_chat_ids,
                               file_before |-> user_chat_ids_file,
                               after |-> user_chat_ids',
                               file_after |-> user_chat_ids_file']
  /\ UNCHANGED << config, tracker, handler, history, det, io, checked, boot, alias >>

\* add_user on the same notifier: the registry is saved in both branches
Register(user_id, username, first_name, now) ==
  /\ user_chat_ids' = add_user(user_chat_ids, user_id, username, first_name, now)
  /\ user_chat_ids_file' = user_chat_ids'
  /\ UNCHANGED << config, tracker, handler, history, det, probes >>

NextBroadcast ==
  \/ Broadcast(DeliverOutcomes)
  \/ Register(3, "dave", "Dave", 1)

SpecBroadcast == InitBroadcast /\ [][NextBroadcast]_vars

\* ------------------------------------------------------------------------
\* Properties of the broadcast
\* ------------------------------------------------------------------------
\* The broadcast recorded in bcast ran its loop
Broadcasted == bcast.called /\ enabled

\* The recorded recipients whose delivery ended with one of the outcomes
RecipientsEnding(ends) ==
  {bcast.recipients[i] : i \in {j \in DOMAIN bcast.recipients : bcast.outcomes[j] \in ends}}

\* C11: a broadcast calls bot.send_message exactly once for every chat id
\* of the list taken at its start, in the order of that list, whatever the
\* outcomes of the earlier deliveries were, and returns a boolean
C11_EveryRecipientAttempted ==
  bcast.called =>
    /\ bcast.attempts = bcast.recipients
    /\ bcast.result \in BOOLEAN
    /\ enabled => bcast.recipients = BroadcastList(bcast.before, TELEGRAM_CHAT_ID)

\* Three recipients, the first gone for good and the second timing out:
\* all three were attempted in order
C11_Witness ==
  /\ Broadcasted
  /\ bcast.recipients = << 1, 2, 3 >>
  /\ bcast.outcomes[1] = "chat_not_found"
  /\ bcast.outcomes[2] = "timeout"
  /\ bcast.attempts = << 1, 2, 3 >>

\* C12: a broadcast answers True exactly when at least one delivery
\* succeeded; it answers False for an empty list and when every delivery
\* failed
C12_SuccessIffOneDelivered ==
  bcast.called =>
    /\ bcast.result <=> (\E i \in DOMAIN bcast.outcomes : bcast.outcomes[i] = "ok")
    /\ bcast.recipients = << >> => ~bcast.result
    /\ bcast.success_count =
         Cardinality({i \in DOMAIN bcast.outcomes : bcast.outcomes[i] = "ok"})

\* One delivery of three succeeded and the broadcast answered True
C12_Witness ==
  /\ Broadcasted
  /\ Len(bcast.recipients) = 3
  /\ bcast.outcomes[1] = "error"
  /\ bcast.outcomes[2] = "ok"
  /\ bcast.outcomes[3] = "network"
  /\ bcast.result

\* A timeout or a network error
TransientOutcomes == {"timeout", "network"}

\* C13 (state part): when the broadcast returns, a registered recipient
\* whose delivery timed out or failed with a network error has its entry in
\* the registry and in the file as before, and a broadcast whose failures
\* are all of that kind leaves the registry and its file as they were
TransientKeepsRegistry ==
  Broadcasted =>
    /\ \A i \in DOMAIN bcast.before :
         bcast.before[i].chat_id \in RecipientsEnding(TransientOutcomes)
           => /\ \E j \in DOMAIN bcast.after : bcast.after[j] = bcast.before[i]
              /\ \E j \in DOMAIN bcast.file_after :
                   bcast.file_after[j] = bcast.before[i]
    /\ (\A i \in DOMAIN bcast.outcomes : bcast.outcomes[i] \in TransientOutcomes \cup {"ok"})
         => /\ bcast.after = bcast.before
            /\ bcast.file_after = bcast.file_before

\* C13 (step part): the registered recipients of a broadcast whose delivery
\* timed out or failed with a network error are attempted by the next
\* broadcast
TransientRetried ==
  (bcast.called /\ enabled /\ bcast' # bcast)
    => (RecipientsEnding(TransientOutcomes) \cap ChatIds(bcast.before))
         \subseteq Range(bcast'.attempts)

\* C13: a timeout or network error of a delivery changes neither the
\* registry nor its file, and the recipient is attempted again by the next
\* broadcast
C13_TransientKeepsRecipient == [](TransientKeepsRegistry) /\ [][TransientRetried]_vars

\* Three recipients, the second timing out: two deliveries counted and
\* three recipients still registered
C13_Witness ==
  /\ Broadcasted
  /\ bcast.outcomes = << "ok", "timeout", "ok" >>
  /\ bcast.success_count = 2
  /\ Len(bcast.after) = 3
  /\ bcast.after = bcast.before
  /\ bcast.file_after = bcast.after

\* The outcomes that report the chat as not found
ChatNotFoundOutcomes == {"chat_not_found", "bad_request_chat_not_found"}

\* C14: when a broadcast returns, a recipient whose delivery failed with "Chat not
\* found" is neither in the registry nor in its file
C14_PermanentDeregisters ==
  Broadcasted =>
    \A c \in RecipientsEnding(ChatNotFoundOutcomes) :
      /\ c \notin ChatIds(bcast.after)
      /\ c \notin ChatIds(bcast.file_after)

\* ------------------------------------------------------------------------
\* The monitoring loop with its failures (position_tracker.py, run_monitoring)
\* ------------------------------------------------------------------------
\* What a positions file holds after a write that failed part-way
CorruptFile == [x \in {"<corrupt>"} |-> EmptyDict]

\* _save_positions failing: the exception is logged and swallowed; the file
\* is as before when open() failed, and cut short when json.dump failed
SavePositionsFails ==
  /\ pc = "save"
  /\ positions_file' \in {positions_file, CorruptFile}
  /\ pc' = "sleep"
  /\ writes' = writes + 1
  /\ UNCHANGED << config, current_positions, idx, all_changes, sent, subscribers,
                  handler, cycle_start_positions, registry_at_start, processed,
                  dispatched, broadcasts, delivered, det, probes >>

\* An exception leaving check_all_addresses after the loop over the
\* addresses, outside its try blocks: the except clause of run_monitoring
\* takes it
CycleRaises ==
  /\ pc = "poll"
  /\ idx > Len(TRACKED_ADDRESSES)
  /\ all_changes # << >>
  /\ pc' = "error"
  /\ UNCHANGED << config, current_positions, positions_file, idx, all_changes, sent,
                  subscribers, handler, history, det, probes >>

\* ErrorAlert with an exception of send_error_alert leaving run_monitoring
ErrorAlertEscapes(outcome_choices) ==
  /\ pc = "error"
  /\ \/ /\ ENABLE_TELEGRAM_ALERTS /\ enabled
        /\ \E outcomes \in [1..Len(BroadcastList(user_chat_ids, TELEGRAM_CHAT_ID))
                              -> outcome_choices] :
             LET r == send_message(user_chat_ids, TELEGRAM_CHAT_ID, outcomes)
             IN  /\ user_chat_ids' = r.users
                 /\ user_chat_ids_file' = IF r.users # user_chat_ids
                                            THEN r.users
                                            ELSE user_chat_ids_file
        /\ pc' = "backoff"
     \/ /\ ~(ENABLE_TELEGRAM_ALERTS /\ enabled)
        /\ UNCHANGED subscribers
        /\ pc' = "backoff"
     \/ /\ ENABLE_TELEGRAM_ALERTS
        /\ UNCHANGED subscribers
        /\ pc' = "crashed"
  /\ UNCHANGED << config, current_positions, positions_file, idx, all_changes, sent,
                  handler, history, det, probes >>

\* The except clause of run_monitoring: with alerts on, send_error_alert,
\* which broadcasts when the notifier is enabled and whose own exception is
\* swallowed; then the 10 second sleep
ErrorAlert(outcome_choices) ==
  /\ pc = "error"
  /\ \/ /\ ENABLE_TELEGRAM_ALERTS /\ enabled
        /\ \E outcomes \in [1..Len(BroadcastList(user_chat_ids, TELEGRAM_CHAT_ID))
                              -> outcome_choices] :
             LET r == send_message(user_chat_ids, TELEGRAM_CHAT_ID, outcomes)
             IN  /\ user_chat_ids' = r.users
                 /\ user_chat_ids_file' = IF r.users # user_chat_ids
                                            THEN r.users
                                            ELSE user_chat_ids_file
        /\ pc' = "backoff"
     \/ /\ ~(ENABLE_TELEGRAM_ALERTS /\ enabled)
        /\ UNCHANGED subscribers
        /\ pc' = "backoff"
     \/ /\ ENABLE_TELEGRAM_ALERTS
        /\ UNCHANGED subscribers
        /\ pc' = "backoff"
  /\ UNCHANGED << config, current_positions, positions_file, idx, all_changes, sent,
                  handler, history, det, probes >>

\* KeyboardInterrupt, task cancellation or SIGINT (signal_handler calls
\* sys.exit) arriving at any point
Cancel ==
  /\ pc \notin {"cancelled", "crashed"}
  /\ pc' = "cancelled"
  /\ UNCHANGED << config, current_positions, positions_file, idx, all_changes, sent,
                  subscribers, handler, history, det, probes >>

\* The exception of the notification block leaving check_all_addresses
NotifyRaisesAborts ==
  /\ pc = "notify"
  /\ sent < Len(all_changes)
  /\ pc' = "error"
  /\ UNCHANGED << config, current_positions, positions_file, idx, all_changes, sent,
                  subscribers, handler, history, det, probes >>

\* send_position_change or send_multiple_changes raising: the except clause
\* around them logs the error, and check_all_addresses goes on to
\* _save_positions
NotifyRaises ==
  /\ pc = "notify"
  /\ sent < Len(all_changes)
  /\ pc' = "save"
  /\ UNCHANGED << config, current_positions, positions_file, idx, all_changes, sent,
                  subscribers, handler, history, det, probes >>

LoopResponses ==
  { FetchError,
    PayloadOf({RawEntry("ETH", 1, 1000, 10), RawEntry("BTC", 0, 1200, 0)}),
    PayloadOf({RawEntry("ETH", -1, 1400, -20), RawEntry("BTC", 2, 1200, 40)}) }

LoopOutcomes == {"ok", "timeout", "chat_not_found"}

InitLoop ==
  Startup({ << "0xa1" >> }, { Subscribers(0, << >>), Subscribers(1, << >>) })

\* The steps of the tracker process itself
Running ==
  \/ StartCycle
  \/ \E response \in LoopResponses : CheckAddress(response)
  \/ CheckAddressRaises
  \/ AfterLoop
  \/ CycleRaises
  \/ ErrorAlert(LoopOutcomes)
  \/ SendSingle(LoopOutcomes)
  \/ SendMultiple(LoopOutcomes)
  \/ NotifyRaises
  \/ SavePositions
  \/ SavePositionsFails

NextLoop ==
  \/ Running
  \/ Cancel

\* Every awaited call returns or raises, so the process keeps taking steps
SpecLoop == InitLoop /\ [][NextLoop]_vars /\ WF_vars(Running)

\* ------------------------------------------------------------------------
\* Properties of the monitoring loop
\* ------------------------------------------------------------------------
\* check_all_addresses has just been called
CycleStarted == pc = "poll" /\ idx = 1 /\ processed = << >>

\* The cycle met a failure: a fetch error or an exception for an address,
\* or an exception taken by run_monitoring
CycleFailed ==
  \/ pc \in {"error", "backoff"}
  \/ \E i \in DOMAIN processed : processed[i].outcome \in {"error", "exception"}

\* C15: no failure inside a cycle ends run_monitoring, and after a failure
\* another cycle starts unless the process is cancelled from outside
C15_LoopSurvives ==
  /\ [](pc # "crashed")
  /\ [](CycleFailed => <>(CycleStarted \/ pc = "cancelled"))
  /\ []((pc = "sleep" /\ positions_file = CorruptFile) => <>(CycleStarted \/ pc = "cancelled"))

\* An exception reached run_monitoring, its alert was attempted and the
\* loop is in its 10 second sleep
C15_Witness ==
  /\ pc = "backoff"
  /\ ENABLE_TELEGRAM_ALERTS
  /\ all_changes # << >>

\* ------------------------------------------------------------------------
\* Serialisation of positions (position_tracker.py, Position.to_dict /
\* Position.from_dict); a text is the sequence of its characters
\* ------------------------------------------------------------------------
Digits10 == << "0", "1", "2", "3", "4", "5", "6", "7", "8", "9" >>

DigitChars == {Digits10[i] : i \in DOMAIN Digits10}

DigitValue(ch) == CHOOSE d \in 0..9 : Digits10[d + 1] = ch

\* str(n) of a non-negative int
RECURSIVE IntText(_)
IntText(n) ==
  IF n < 10 THEN << Digits10[n + 1] >>
  ELSE IntText(n \div 10) \o << Digits10[(n % 10) + 1] >>

\* int(t) of a text of digits
RECURSIVE TextInt(_)
TextInt(t) ==
  IF t = << >> THEN 0
  ELSE 10 * TextInt(SubSeq(t, 1, Len(t) - 1)) + DigitValue(t[Len(t)])

AllDigits(t) == \A i \in DOMAIN t : t[i] \in DigitChars

\* The first index of t holding one of the characters, 0 when there is none
IndexOf(t, chars) ==
  IF \E i \in DOMAIN t : t[i] \in chars
    THEN CHOOSE i \in DOMAIN t : t[i] \in chars /\ \A j \in 1..(i - 1) : t[j] \notin chars
    ELSE 0

Zeros(n) == [i \in 1..n |-> "0"]

\* "%+d" % n
SignedText(n) == (IF n < 0 THEN << "-" >> ELSE << "+" >>) \o IntText(Abs(n))

\* A Decimal as Python keeps it: sign, coefficient and exponent, or one of
\* the special values
Dec(sign, coefficient, exp) ==
  [sign |-> sign, int |-> coefficient, exp |-> exp, special |-> ""]

DecSpecial(sign, name) == [sign |-> sign, int |-> 0, exp |-> 0, special |-> name]

NaNText == << "N", "a", "N" >>

InfinityText == << "I", "n", "f", "i", "n", "i", "t", "y" >>

\* str(Decimal): plain notation when the exponent is not positive and the
\* number is not too small, scientific notation otherwise
decimal_str(d) ==
  LET signtext   == IF d.sign = 1 THEN << "-" >> ELSE << >>
      digits     == IntText(d.int)
      leftdigits == d.exp + Len(digits)
      dotplace   == IF d.exp <= 0 /\ leftdigits > -6 THEN leftdigits ELSE 1
      intpart    == IF dotplace <= 0 THEN << "0" >>
                    ELSE IF dotplace >= Len(digits)
                      THEN digits \o Zeros(dotplace - Len(digits))
                    ELSE SubSeq(digits, 1, dotplace)
      fracpart   == IF dotplace <= 0 THEN << "." >> \o Zeros(-dotplace) \o digits
                    ELSE IF dotplace >= Len(digits) THEN << >>
                    ELSE << "." >> \o SubSeq(digits, dotplace + 1, Len(digits))
      exptext    == IF leftdigits = dotplace THEN << >>
                    ELSE << "E" >> \o SignedText(leftdigits - dotplace)
  IN  IF d.special = "NaN" THEN signtext \o NaNText
      ELSE IF d.special = "Infinity" THEN signtext \o InfinityText
      ELSE signtext \o intpart \o fracpart \o exptext

\* Decimal(t) of a text: [ok |-> FALSE] stands for InvalidOperation
ParseDecimal(t) ==
  LET signed   == t # << >> /\ t[1] \in {"+", "-"}
      sign     == IF signed /\ t[1] = "-" THEN 1 ELSE 0
      body     == IF signed THEN Tail(t) ELSE t
      epos     == IndexOf(body, {"E", "e"})
      mant     == IF epos = 0 THEN body ELSE SubSeq(body, 1, epos - 1)
      etxt     == IF epos = 0 THEN << >> ELSE SubSeq(body, epos + 1, Len(body))
      esigned  == etxt # << >> /\ etxt[1] \in {"+", "-"}
      edigits  == IF esigned THEN Tail(etxt) ELSE etxt
      dot      == IndexOf(mant, {"."})
      intpart  == IF dot = 0 THEN mant ELSE SubSeq(mant, 1, dot - 1)
      fracpart == IF dot = 0 THEN << >> ELSE SubSeq(mant, dot + 1, Len(mant))
      e        == IF epos = 0 THEN 0
                  ELSE (IF esigned /\ etxt[1] = "-" THEN -1 ELSE 1) * TextInt(edigits)
  IN  IF body = NaNText THEN [ok |-> TRUE, value |-> DecSpecial(sign, "NaN")]
      ELSE IF body = InfinityText THEN [ok |-> TRUE, value |-> DecSpecial(sign, "Infinity")]
      ELSE IF /\ AllDigits(intpart)
              /\ AllDigits(fracpart)
              /\ Len(intpart) + Len(fracpart) >= 1
              /\ epos = 0 \/ (edigits # << >> /\ AllDigits(edigits))
        THEN [ok |-> TRUE,
              value |-> Dec(sign, TextInt(intpart \o fracpart), e - Len(fracpart))]
      ELSE [ok |-> FALSE, value |-> Dec(0, 0, 0)]

\* A naive datetime
DateTime(year, month, day, hour, minute, second, microsecond) ==
  [year |-> year, month |-> month, day |-> day, hour |-> hour, minute |-> minute,
   second |-> second, microsecond |-> microsecond]

\* n in decimal, padded with zeros to the width w
Pad(n, w) == Zeros(w - Len(IntText(n))) \o IntText(n)

\* datetime.isoformat() with seconds only
isoformat_seconds(ts) ==
  Pad(ts.year, 4) \o << "-" >> \o Pad(ts.month, 2) \o << "-" >> \o Pad(ts.day, 2)
    \o << "T" >> \o Pad(ts.hour, 2) \o << ":" >> \o Pad(ts.minute, 2)
    \o << ":" >> \o Pad(ts.second, 2)

\* datetime.isoformat(): YYYY-MM-DDTHH:MM:SS, and .ffffff when the
\* microseconds are not zero
isoformat(ts) ==
  Pad(ts.year, 4) \o << "-" >> \o Pad(ts.month, 2) \o << "-" >> \o Pad(ts.day, 2)
    \o << "T" >> \o Pad(ts.hour, 2) \o << ":" >> \o Pad(ts.minute, 2)
    \o << ":" >> \o Pad(ts.second, 2)
    \o (IF ts.microsecond = 0 THEN << >> ELSE << "." >> \o Pad(ts.microsecond, 6))

DaysIn(year, month) ==
  IF month \in {4, 6, 9, 11} THEN 30
  ELSE IF month = 2
    THEN (IF year % 4 = 0 /\ (year % 100 # 0 \/ year % 400 = 0) THEN 29 ELSE 28)
  ELSE 31

\* datetime.fromisoformat(t) for the date, date-and-time and microsecond
\* forms: [ok |-> FALSE] stands for ValueError
ParseDateTime(t) ==
  LET n      == Len(t)
      Num(a, b) == TextInt(SubSeq(t, a, b))
      shape  == /\ n \in {10, 19, 26}
                /\ AllDigits(SubSeq(t, 1, 4)) /\ t[5] = "-"
                /\ AllDigits(SubSeq(t, 6, 7)) /\ t[8] = "-"
                /\ AllDigits(SubSeq(t, 9, 10))
                /\ n >= 19 => /\ t[11] \in {"T", " "}
                              /\ AllDigits(SubSeq(t, 12, 13)) /\ t[14] = ":"
                              /\ AllDigits(SubSeq(t, 15, 16)) /\ t[17] = ":"
                              /\ AllDigits(SubSeq(t, 18, 19))
                /\ n = 26 => t[20] = "." /\ AllDigits(SubSeq(t, 21, 26))
      ts     == DateTime(Num(1, 4), Num(6, 7), Num(9, 10),
                         IF n >= 19 THEN Num(12, 13) ELSE 0,
                         IF n >= 19 THEN Num(15, 16) ELSE 0,
                         IF n >= 19 THEN Num(18, 19) ELSE 0,
                         IF n = 26 THEN Num(21, 26) ELSE 0)
  IN  IF /\ shape
         /\ ts.year >= 1
         /\ ts.month \in 1..12
         /\ ts.day \in 1..DaysIn(ts.year, ts.month)
         /\ ts.hour < 24 /\ ts.minute < 60 /\ ts.second < 60
        THEN [ok |-> TRUE, value |-> ts]
        ELSE [ok |-> FALSE, value |-> DateTime(1, 1, 1, 0, 0, 0, 0)]

\* ------------------------------------------------------------------------
\* The positions file (position_tracker.py, _save_positions /
\* _load_positions)
\* ------------------------------------------------------------------------
\* A Position with Decimal fields and its timestamp
StoredPosition(symbol, size, side, entry_price, market_value, unrealized_pnl, timestamp) ==
  [symbol |-> symbol, size |-> size, side |-> side, entry_price |-> entry_price,
   market_value |-> market_value, unrealized_pnl |-> unrealized_pnl,
   timestamp |-> timestamp]

PositionFields ==
  {"symbol", "size", "side", "entry_price", "market_value", "unrealized_pnl", "timestamp"}

DecimalFields == {"size", "entry_price", "market_value", "unrealized_pnl"}

\* Position.to_dict
to_dict(p) ==
  [symbol |-> p.symbol, size |-> decimal_str(p.size), side |-> p.side,
   entry_price |-> decimal_str(p.entry_price),
   market_value |-> decimal_str(p.market_value),
   unrealized_pnl |-> decimal_str(p.unrealized_pnl),
   timestamp |-> isoformat(p.timestamp)]

\* Whether Position.from_dict returns: every key is there, the four
\* amounts are accepted by Decimal() and the timestamp by fromisoformat();
\* symbol and side are taken as they are
FromDictReturns(data) ==
  /\ PositionFields \subseteq DOMAIN data
  /\ \A f \in DecimalFields : ParseDecimal(data[f]).ok
  /\ ParseDateTime(data["timestamp"]).ok

\* Position.from_dict when it returns
from_dict(data) ==
  StoredPosition(data["symbol"], ParseDecimal(data["size"]).value, data["side"],
                 ParseDecimal(data["entry_price"]).value,
                 ParseDecimal(data["market_value"]).value,
                 ParseDecimal(data["unrealized_pnl"]).value,
                 ParseDateTime(data["timestamp"]).value)

\* What POSITIONS_FILE can be: absent, not JSON, JSON that is not an object
\* of objects, or JSON data {address: {symbol: {field: value}}}
MissingFile == [kind |-> "missing", data |-> EmptyDict]

UnparseableFile == [kind |-> "unparseable", data |-> EmptyDict]

NotADictFile == [kind |-> "not_a_dict", data |-> EmptyDict]

DataFile(data) == [kind |-> "data", data |-> data]

\* The data _save_positions hands to json.dump
SavedData(positions) ==
  [a \in DOMAIN positions |-> [s \in DOMAIN positions[a] |-> to_dict(positions[a][s])]]

\* _load_positions on a fresh tracker (current_positions = {}): nothing is
\* read when the file does not exist; any exception while reading or
\* converting resets current_positions to {}
load_positions(file) ==
  IF file.kind # "data" THEN EmptyDict
  ELSE IF \E a \in DOMAIN file.data : \E s \in DOMAIN file.data[a] :
            ~FromDictReturns(file.data[a][s])
    THEN EmptyDict
  ELSE [a \in DOMAIN file.data |->
          [s \in DOMAIN file.data[a] |-> from_dict(file.data[a][s])]]

\* Positions with amounts written in plain and in scientific notation, with
\* trailing zeros, negative and zero, and timestamps with and without
\* microseconds
StoredETH ==
  { StoredPosition("ETH", Dec(0, 150, -2), "long", Dec(0, 2500, 0), Dec(0, 375000, -2),
                   Dec(1, 125, -1), DateTime(2024, 1, 5, 9, 3, 7, 0)),
    StoredPosition("ETH", Dec(0, 5, 3), "short", Dec(0, 12, -8), Dec(0, 0, -8),
                   Dec(0, 0, 0), DateTime(2024, 12, 31, 23, 59, 59, 123)) }

StoredBTC ==
  { StoredPosition("BTC", Dec(0, 5, -1), "long", Dec(0, 45000, 0), Dec(0, 225000, -1),
                   Dec(0, 1234567, 0), DateTime(2024, 2, 29, 0, 0, 0, 500000)),
    StoredPosition("BTC", Dec(0, 5, -7), "short", Dec(0, 1, 9), Dec(0, 500, 0),
                   Dec(1, 1, -2), DateTime(1999, 10, 10, 10, 10, 10, 999999)) }

StoredFor(coin) == IF coin = "ETH" THEN StoredETH ELSE StoredBTC

\* Every {symbol: Position} map over those positions
StoredSlices ==
  UNION { {m \in [D -> StoredETH \cup StoredBTC] : \A c \in D : m[c] \in StoredFor(c)}
            : D \in SUBSET Symbols }

\* Every {address: {symbol: Position}} snapshot over them
Snapshots == UNION { [A -> StoredSlices] : A \in SUBSET Addresses }

\* A record of the file with one key missing, and with one value replaced
Without(data, field) == [f \in (DOMAIN data) \ {field} |-> data[f]]

With(data, field, value) == [f \in DOMAIN data |-> IF f = field THEN value ELSE data[f]]

\* Values a damaged or hand-edited file can hold in a field
BadValues(field) ==
  IF field \in DecimalFields
    THEN { << >>, << "a", "b", "c" >>, << "1", ".", "2", ".", "3" >>, NaNText, << "-", "5" >> }
  ELSE IF field = "timestamp"
    THEN { << >>, << "n", "o", "w" >>, isoformat(DateTime(2023, 2, 29, 0, 0, 0, 0)) }
  ELSE IF field = "side" THEN { "sideways" }
  ELSE { }

\* The snapshot whose file the damaged files are derived from
BaseSnapshot ==
  [a \in Addresses |->
     IF a = "0xa1"
       THEN [c \in Symbols |-> CHOOSE q \in StoredFor(c) : q.side = "long"]
       ELSE [c \in {"ETH"} |-> CHOOSE q \in StoredETH : q.side = "short"]]

\* The file of BaseSnapshot with the record of (address, symbol) replaced
Damaged(address, symbol, record) ==
  DataFile([a \in DOMAIN SavedData(BaseSnapshot) |->
              [c \in DOMAIN SavedData(BaseSnapshot)[a] |->
                 IF a = address /\ c = symbol THEN record
                 ELSE SavedData(BaseSnapshot)[a][c]]])

DamagedFiles ==
  UNION { UNION { { Damaged(a, c, Without(SavedData(BaseSnapshot)[a][c], f)) }
                    \cup { Damaged(a, c, With(SavedData(BaseSnapshot)[a][c], f, v))
                             : v \in BadValues(f) }
                  : f \in PositionFields }
          : a \in {"0xa1"}, c \in Symbols }

\* The files a tracker can find when it starts
InitialFiles ==
  { MissingFile, UnparseableFile, NotADictFile, DataFile(SavedData(BaseSnapshot)) }
    \cup DamagedFiles

InitPersist ==
  /\ positions_file \in InitialFiles
  /\ current_positions = EmptyDict
  /\ io = NoTransfer
  /\ checked = NoCheck
  /\ bcast = NoBroadcast
  /\ det = NoDetectCall
  /\ TRACKED_ADDRESSES = << >>
  /\ ENABLE_TELEGRAM_ALERTS = FALSE
  /\ enabled = FALSE
  /\ TELEGRAM_CHAT_ID = 0
  /\ user_chat_ids = << >>
  /\ user_chat_ids_file = << >>
  /\ h_user_chat_ids = << >>
  /\ dynamic_addresses = << >>
  /\ dynamic_addresses_file = << >>
  /\ reply = "none"
  /\ registry_at_start = {}
  /\ pc = "idle"
  /\ idx = 1
  /\ all_changes = << >>
  /\ sent = 0
  /\ cycle_start_positions = EmptyDict
  /\ processed = << >>
  /\ dispatched = << >>
  /\ broadcasts = << >>
  /\ delivered = << >>
  /\ writes = 0
  /\ boot = NoBoot
  /\ alias = NoAlias

\* HyperliquidTracker.__init__: current_positions = {}, then _load_positions
Load ==
  /\ io.phase = "none"
  /\ current_positions' = load_positions(positions_file)
  /\ io' = [io EXCEPT !.phase = "loaded"]
  /\ UNCHANGED << config, positions_file, pc, idx, all_changes, sent, subscribers,
                  handler, history, det, bcast, checked, boot, alias >>

\* Polling cycles leave some snapshot in memory
Observe(snapshot) ==
  /\ io.phase = "loaded"
  /\ ~io.restored
  /\ current_positions' = snapshot
  /\ io' = [io EXCEPT !.phase = "running"]
  /\ UNCHANGED << config, positions_file, pc, idx, all_changes, sent, subscribers,
                  handler, history, det, bcast, checked, boot, alias >>

\* _save_positions writing the file
Save ==
  /\ io.phase = "running"
  /\ positions_file' = DataFile(SavedData(current_positions))
  /\ io' = [phase |-> "saved", saved |-> current_positions, restored |-> FALSE]
  /\ UNCHANGED << config, current_positions, pc, idx, all_changes, sent, subscribers,
                  handler, history, det, bcast, checked, boot, alias >>

\* The process ends and a new tracker object is about to be constructed
Restart ==
  /\ io.phase = "saved"
  /\ current_positions' = EmptyDict
  /\ io' = [io EXCEPT !.phase = "none", !.restored = TRUE]
  /\ UNCHANGED << config, positions_file, pc, idx, all_changes, sent, subscribers,
                  handler, history, det, bcast, checked, boot, alias >>

NextPersist ==
  \/ Load
  \/ \E snapshot \in Snapshots : Observe(snapshot)
  \/ Save
  \/ Restart

SpecPersist == InitPersist /\ [][NextPersist]_vars

\* ------------------------------------------------------------------------
\* Properties of the positions file
\* ------------------------------------------------------------------------
\* C16: a snapshot that was saved and then loaded by a new tracker is the
\* snapshot that was saved: same addresses, same symbols, every field of
\* every Position the same, amounts with their digits and exponent and
\* timestamps to the microsecond
C16_RoundTrip ==
  (io.phase = "loaded" /\ io.restored) => current_positions = io.saved

\* A round trip of a snapshot with an address without positions and one
\* holding an amount in scientific notation and a timestamp with
\* microseconds
C16_Witness ==
  /\ io.phase = "loaded" /\ io.restored
  /\ DOMAIN io.saved = Addresses
  /\ io.saved["0xa2"] = EmptyDict
  /\ "ETH" \in DOMAIN io.saved["0xa1"]
  /\ io.saved["0xa1"]["ETH"].size = Dec(0, 5, 3)
  /\ io.saved["0xa1"]["ETH"].timestamp.microsecond = 123
  /\ current_positions["0xa1"]["ETH"] = io.saved["0xa1"]["ETH"]

\* A record of the file that is a Position: every field present, the
\* amounts finite decimals, non-negative except the PnL, the side long or
\* short, the timestamp an ISO timestamp
WellFormedRecord(data) ==
  /\ PositionFields \subseteq DOMAIN data
  /\ \A f \in DecimalFields :
       /\ ParseDecimal(data[f]).ok
       /\ ParseDecimal(data[f]).value.special = ""
       /\ f # "unrealized_pnl" => ParseDecimal(data[f]).value.sign = 0
  /\ data["side"] \in {"long", "short"}
  /\ ParseDateTime(data["timestamp"]).ok

\* The file is absent, or unparseable, or holds a record with a missing or
\* invalid field
AbsentOrCorrupt(file) ==
  \/ file.kind # "data"
  \/ \E a \in DOMAIN file.data : \E s \in DOMAIN file.data[a] :
       ~WellFormedRecord(file.data[a][s])

\* C17: a tracker that starts on an absent or corrupt file has the empty
\* snapshot in memory
C17_CorruptLoadsEmpty ==
  (io.phase = "loaded" /\ AbsentOrCorrupt(positions_file)) => current_positions = EmptyDict

\* ------------------------------------------------------------------------
\* Properties of the store during the polling cycle
\* ------------------------------------------------------------------------
\* Every position of the map has a size other than zero and a market value
\* of at least MIN_POSITION_SIZE
AboveFloor(positions) ==
  \A c \in DOMAIN positions :
    /\ positions[c].size # 0
    /\ positions[c].market_value >= MIN_POSITION_SIZE

\* C18: every position a fetch handed to _detect_changes as a current
\* position, and every position in the store, has a non-zero size and a
\* market value of at least MIN_POSITION_SIZE
C18_StoredAboveFloor ==
  /\ \A i \in DOMAIN processed : AboveFloor(processed[i].fetched)
  /\ \A a \in DOMAIN current_positions : AboveFloor(current_positions[a])

\* The payload with ETH below the floor and BTC above it was fetched: only
\* BTC is in the store
C18_Witness ==
  \E i \in DOMAIN processed :
    /\ processed[i].outcome = "ok"
    /\ DOMAIN processed[i].fetched = {"BTC"}
    /\ current_positions[processed[i].address] = processed[i].fetched

\* The entries of processed that are the last one of their address and
\* whose iteration reached the assignment of the slice
LastStored ==
  {i \in DOMAIN processed :
     /\ processed[i].outcome # "exception"
     /\ \A j \in DOMAIN processed : j > i => processed[j].address # processed[i].address}

\* C19: once the iteration for an address is over, its slice is the map
\* that was fetched, with nothing kept from the old slice; and in every
\* state the slice of an address is either the one the cycle began with or
\* a map that was fetched for it
C19_SliceReplaced ==
  /\ \A i \in LastStored : current_positions[processed[i].address] = processed[i].fetched
  /\ \A a \in DOMAIN current_positions :
       \/ current_positions[a] = GetSlice(cycle_start_positions, a)
       \/ \E i \in DOMAIN processed :
            processed[i].address = a /\ current_positions[a] = processed[i].fetched

\* An address that held ETH and BTC was fetched with ETH alone: BTC is
\* gone from its slice
C19_Witness ==
  \E i \in LastStored :
    /\ DOMAIN GetSlice(cycle_start_positions, processed[i].address) = {"ETH", "BTC"}
    /\ DOMAIN processed[i].fetched = {"ETH"}
    /\ current_positions[processed[i].address] = processed[i].fetched

\* ------------------------------------------------------------------------
\* The address validator applied to arbitrary texts (telegram_bot.py,
\* telegram_command_handler.py and utils.py hold the same function)
\* ------------------------------------------------------------------------
\* How a text may begin, what may follow the prefix, the character the
\* middle is filled with, and how the text may end
Prefixes == { << "0", "x" >>, << "0", "X" >>, << "x", "0" >> }

Leads ==
  { << >>, << "+" >>, << "-" >>, << " " >>, << "\t" >>, << "0", "x" >>, << "0", "X" >>,
    << "_" >>, << "a", "_" >>, << "g" >> }

Fills == { "a", "F", "7" }

Tails == { << >>, << "_" >>, << " " >>, << "\n" >>, << "g" >>, << "_", "b" >> }

\* The lengths of the part after the prefix
BodyLengths == { 39, 40, 41 }

CandidateTexts ==
  { prefix \o lead \o Repeat(fill, n - Len(lead) - Len(tail)) \o tail :
      prefix \in Prefixes, lead \in Leads, fill \in Fills, tail \in Tails,
      n \in BodyLengths }

InitValidate ==
  /\ checked \in { [text |-> t, called |-> FALSE, result |-> FALSE] : t \in CandidateTexts }
  /\ bcast = NoBroadcast
  /\ io = NoTransfer
  /\ det = NoDetectCall
  /\ positions_file = EmptyDict
  /\ current_positions = EmptyDict
  /\ TRACKED_ADDRESSES = << >>
  /\ ENABLE_TELEGRAM_ALERTS = FALSE
  /\ enabled = FALSE
  /\ TELEGRAM_CHAT_ID = 0
  /\ user_chat_ids = << >>
  /\ user_chat_ids_file = << >>
  /\ h_user_chat_ids = << >>
  /\ dynamic_addresses = << >>
  /\ dynamic_addresses_file = << >>
  /\ reply = "none"
  /\ registry_at_start = {}
  /\ pc = "idle"
  /\ idx = 1
  /\ all_changes = << >>
  /\ sent = 0
  /\ cycle_start_positions = EmptyDict
  /\ processed = << >>
  /\ dispatched = << >>
  /\ broadcasts = << >>
  /\ delivered = << >>
  /\ writes = 0
  /\ boot = NoBoot
  /\ alias = NoAlias

\* _validate_address(text)
Validate ==
  /\ ~checked.called
  /\ checked' = [checked EXCEPT !.called = TRUE, !.result = ValidAddressText(checked.text)]
  /\ UNCHANGED << config, tracker, subscribers, handler, history, det, bcast, io, boot, alias >>

NextValidate == Validate

SpecValidate == InitValidate /\ [][NextValidate]_vars

\* ------------------------------------------------------------------------
\* Properties of the address validator
\* ------------------------------------------------------------------------
\* "0x" followed by exactly 40 hexadecimal digits
FortyHexDigits(t) ==
  /\ Len(t) = 42
  /\ t[1] = "0" /\ t[2] = "x"
  /\ \A i \in 3..42 : t[i] \in HexDigits

\* C20: the validator accepts a text exactly when it is "0x" followed by
\* 40 hexadecimal digits
C20_ValidatorExact ==
  checked.called => (checked.result <=> FortyHexDigits(checked.text))

\* The validator agrees with the 40-hex-digit rule on every text that has
\* no sign, underscore, whitespace or second prefix after "0x"
ValidatorExactOnPlainTexts ==
  (checked.called /\ \A i \in 3..Len(checked.text) :
                        checked.text[i] \in HexDigits \cup {"g"})
    => (checked.result <=> FortyHexDigits(checked.text))

\* ------------------------------------------------------------------------
\* The command handler process alone (telegram_command_handler.py)
\* ------------------------------------------------------------------------
\* handle_add_command when _save_dynamic_addresses fails: the exception is
\* logged inside _save_dynamic_addresses, the file stays as it was, and the
\* handler goes on to its success reply
AddCommandWriteFails(user_id, username, first_name, args, now, outcome_choices) ==
  LET users == add_user(h_user_chat_ids, user_id, username, first_name, now)
  IN  /\ args.given
      /\ validate_address(args.address)
      /\ args.address \notin Keys(dynamic_addresses)
      /\ \E label \in (IF args.label = NoLabel
                         THEN generate_unique_alias(Labels(dynamic_addresses))
                         ELSE {args.label}) :
           dynamic_addresses' =
             Append(dynamic_addresses, [address |-> args.address, label |-> label])
      /\ UNCHANGED dynamic_addresses_file
      /\ reply' = "added"
      /\ Announce(users, outcome_choices)
      /\ UNCHANGED << config, tracker, user_chat_ids, history, det, probes >>

\* handle_remove_command when _save_dynamic_addresses fails
RemoveCommandWriteFails(user_id, username, first_name, args, now, outcome_choices) ==
  LET users == add_user(h_user_chat_ids, user_id, username, first_name, now)
  IN  /\ args.given
      /\ validate_address(args.address)
      /\ args.address \in Keys(dynamic_addresses)
      /\ dynamic_addresses' =
           SelectSeq(dynamic_addresses, LAMBDA e : e.address # args.address)
      /\ UNCHANGED dynamic_addresses_file
      /\ reply' = "removed"
      /\ Announce(users, outcome_choices)
      /\ UNCHANGED << config, tracker, user_chat_ids, history, det, probes >>

\* button_callback with "remove_<address>": add_user, then
\* _handle_remove_button, which looks the address up without validating it;
\* write is the end of _save_dynamic_addresses, "ok" or "fails"
RemoveButton(user_id, username, first_name, address, now, write, outcome_choices) ==
  LET users == add_user(h_user_chat_ids, user_id, username, first_name, now)
  IN  /\ IF address \notin Keys(dynamic_addresses)
           THEN /\ write = "ok"
                /\ reply' = "not_found"
                /\ h_user_chat_ids' = users
                /\ user_chat_ids_file' = users
                /\ UNCHANGED << dynamic_addresses, dynamic_addresses_file >>
           ELSE /\ dynamic_addresses' =
                     SelectSeq(dynamic_addresses, LAMBDA e : e.address # address)
                /\ dynamic_addresses_file' =
                     (IF write = "ok" THEN dynamic_addresses' ELSE dynamic_addresses_file)
                /\ reply' = "removed"
                /\ Announce(users, outcome_choices)
      /\ UNCHANGED << config, tracker, user_chat_ids, history, det, probes >>

\* /start, /help, /list and plain messages: add_user, then an
\* informational reply
Interact(user_id, username, first_name, now) ==
  /\ h_user_chat_ids' = add_user(h_user_chat_ids, user_id, username, first_name, now)
  /\ user_chat_ids_file' = h_user_chat_ids'
  /\ reply' = "info"
  /\ UNCHANGED << config, tracker, user_chat_ids, dynamic_addresses,
                  dynamic_addresses_file, history, det, probes >>

\* check_command: add_user, then the argument is looked at; fetch is the
\* end of _get_address_positions, "ok" or "fails"
CheckCommand(user_id, username, first_name, args, now, fetch) ==
  /\ h_user_chat_ids' = add_user(h_user_chat_ids, user_id, username, first_name, now)
  /\ user_chat_ids_file' = h_user_chat_ids'
  /\ IF ~args.given
        THEN fetch = "ok" /\ reply' = "usage"
      ELSE IF ~validate_address(args.address)
        THEN fetch = "ok" /\ reply' = "invalid"
      ELSE reply' = (IF fetch = "ok" THEN "positions" ELSE "check_failed")
  /\ UNCHANGED << config, tracker, user_chat_ids, dynamic_addresses,
                  dynamic_addresses_file, history, det, probes >>

\* The commands of the model: user 7 writes at time 1
CommandAddresses == {"0xa1", "0xshort", "0xsigned"}

CommandAddArgs ==
  {NoArgs, AddArgs("0xa1", NoLabel)} \cup {AddArgs(a, "Whale") : a \in CommandAddresses}

CommandRemoveArgs == {NoArgs} \cup {RemoveArgs(a) : a \in CommandAddresses}

CommandOutcomes == {"ok", "chat_not_found"}

Add(args) == AddCommand(7, "carol", "Carol", args, 1, CommandOutcomes)

AddWriteFails(args) == AddCommandWriteFails(7, "carol", "Carol", args, 1, CommandOutcomes)

Remove(args) == RemoveCommand(7, "carol", "Carol", args, 1, CommandOutcomes)

RemoveWriteFails(args) ==
  RemoveCommandWriteFails(7, "carol", "Carol", args, 1, CommandOutcomes)

PressRemove(address, write) ==
  RemoveButton(7, "carol", "Carol", address, 1, write, CommandOutcomes)

\* The interactions of the model: a first contact, and known users coming
\* back later under another name or without one
Interactions ==
  { UserInfo(7, "carol", "Carol", 1), UserInfo(7, "caz", "Caz", 2),
    UserInfo(1, "al", "", 2) }

Check(args, fetch) == CheckCommand(7, "carol", "Carol", args, 1, fetch)

Contact(u) == Interact(u.chat_id, u.username, u.first_name, u.added_at)

InitCommands ==
  Startup({ << >> }, { Subscribers(1, << User1 >>) })

NextCommands ==
  \/ \E args \in CommandAddArgs : Add(args)
  \/ \E args \in CommandAddArgs : AddWriteFails(args)
  \/ \E args \in CommandRemoveArgs : Remove(args)
  \/ \E args \in CommandRemoveArgs : RemoveWriteFails(args)
  \/ \E a \in CommandAddresses, write \in {"ok", "fails"} : PressRemove(a, write)
  \/ \E args \in CommandRemoveArgs, fetch \in {"ok", "fails"} : Check(args, fetch)
  \/ \E u \in Interactions : Contact(u)

SpecCommands == InitCommands /\ [][NextCommands]_vars

\* ------------------------------------------------------------------------
\* Properties of the address commands
\* ------------------------------------------------------------------------
\* The replies that report an error to the caller
ErrorReplies == {"invalid", "not_tracked", "not_found", "already_tracked", "error"}

RegistryKept == UNCHANGED << dynamic_addresses, dynamic_addresses_file >>

Malformed(address) == ~FortyHexDigits(AddressText(address))

\* C21: /add with a malformed address, and /remove of a malformed or
\* untracked address, end in an error reply and leave dynamic_addresses and
\* its file as they were
C21_MalformedRejected ==
  [][ /\ \A args \in CommandAddArgs \ {NoArgs} :
           (Malformed(args.address) /\ (Add(args) \/ AddWriteFails(args)))
             => (reply' \in ErrorReplies /\ RegistryKept)
      /\ \A args \in CommandRemoveArgs \ {NoArgs} :
           ((Malformed(args.address) \/ args.address \notin Keys(dynamic_addresses))
              /\ (Remove(args) \/ RemoveWriteFails(args)))
             => (reply' \in ErrorReplies /\ RegistryKept) ]_vars

\* What does hold: an address the validator refuses, and an address that is
\* not tracked, end in an error reply and leave the registry as it was
RefusedKeepsRegistry ==
  [][ /\ \A args \in CommandAddArgs \ {NoArgs} :
           (~validate_address(args.address) /\ Add(args))
             => (reply' = "invalid" /\ RegistryKept)
      /\ \A args \in CommandRemoveArgs \ {NoArgs} :
           ((~validate_address(args.address) \/ args.address \notin Keys(dynamic_addresses))
              /\ Remove(args))
             => (reply' \in {"invalid", "not_tracked"} /\ RegistryKept) ]_vars

\* C22: /add of an address that is already tracked answers "already
\* tracked" and leaves dynamic_addresses, with the label of that address,
\* and its file as they were, with or without a label in the command
C22_AlreadyTrackedKept ==
  [][ \A args \in CommandAddArgs \ {NoArgs} :
        (args.address \in Keys(dynamic_addresses) /\ Add(args))
          => (reply' = "already_tracked" /\ RegistryKept) ]_vars

C22_Witness ==
  /\ reply = "already_tracked"
  /\ dynamic_addresses = dynamic_addresses_file
  /\ \E i \in DOMAIN dynamic_addresses :
       dynamic_addresses[i] = [address |-> "0xa1", label |-> "Bold Shark"]

\* C23: when /add, /remove, the remove button or any other interaction
\* returns and its writes succeeded, user_chat_ids.json holds the whole
\* subscriber registry of the handler (after registration, re-registration
\* and deregistration), and after an added or removed address
\* dynamic_addresses.json holds the whole address registry
SubscribersStored == user_chat_ids_file' = h_user_chat_ids'

AddressesStored ==
  reply' \in {"added", "removed"} => dynamic_addresses_file' = dynamic_addresses'

C23_StoreEqualsRegistry ==
  [][ /\ \A args \in CommandAddArgs : Add(args) => (SubscribersStored /\ AddressesStored)
      /\ \A args \in CommandRemoveArgs :
           Remove(args) => (SubscribersStored /\ AddressesStored)
      /\ \A a \in CommandAddresses :
           PressRemove(a, "ok") => (SubscribersStored /\ AddressesStored)
      /\ \A u \in Interactions : Contact(u) => SubscribersStored ]_vars

\* A second address added, a subscriber deregistered and the sender
\* registered: both files hold the registries in full
C23_Witness ==
  /\ reply = "added"
  /\ Len(dynamic_addresses) = 2
  /\ dynamic_addresses_file = dynamic_addresses
  /\ ~HasUser(h_user_chat_ids, 1)
  /\ HasUser(h_user_chat_ids, 7)
  /\ user_chat_ids_file = h_user_chat_ids

\* C24: when the write of dynamic_addresses.json fails during /add or
\* /remove, the reply is an error and not a success confirmation
C24_WriteFailureReported ==
  [][ /\ \A args \in CommandAddArgs \ {NoArgs} :
           AddWriteFails(args) => (reply' \in ErrorReplies /\ reply' # "added")
      /\ \A args \in CommandRemoveArgs \ {NoArgs} :
           RemoveWriteFails(args) => (reply' \in ErrorReplies /\ reply' # "removed")
      /\ \A a \in CommandAddresses :
           (a \in Keys(dynamic_addresses) /\ PressRemove(a, "fails"))
             => (reply' \in ErrorReplies /\ reply' # "removed") ]_vars

\* C25: an interaction of a user who is registered already leaves the
\* number of entries, their order, every other entry and the added_at of
\* that user's single entry as they were; only username and first_name of
\* that entry may change
C25_ReRegistrationKeepsEntry ==
  [][ \A u \in Interactions :
        (HasUser(h_user_chat_ids, u.chat_id) /\ Contact(u))
          => /\ Len(h_user_chat_ids') = Len(h_user_chat_ids)
             /\ \A i \in DOMAIN h_user_chat_ids :
                  /\ h_user_chat_ids'[i].chat_id = h_user_chat_ids[i].chat_id
                  /\ h_user_chat_ids'[i].added_at = h_user_chat_ids[i].added_at
                  /\ h_user_chat_ids[i].chat_id # u.chat_id
                       => h_user_chat_ids'[i] = h_user_chat_ids[i]
             /\ Cardinality({i \in DOMAIN h_user_chat_ids' :
                               h_user_chat_ids'[i].chat_id = u.chat_id}) = 1 ]_vars

\* Both users came back under another name at time 2 and kept their place
\* and their added_at; the first name that was not given stayed
C25_Witness ==
  h_user_chat_ids = << UserInfo(1, "al", "Alice", 0), UserInfo(7, "caz", "Caz", 1) >>

\* ------------------------------------------------------------------------
\* Construction of the notifier over a stored subscriber file
\* ------------------------------------------------------------------------
MainChatIds == {0, 1, 9}

MainUser(chat_id) == UserInfo(chat_id, "MainChat", "Main User", 0)

\* What user_chat_ids.json can hold when the process starts
StoredRegistries ==
  { << >>, << User1 >>, << User2 >>, << User1, User2 >>, << User2, User1 >>,
    << MainUser(9) >>, << User1, MainUser(9) >>, << MainUser(1) >> }

\* The process before TelegramNotifier() is constructed
InitStartup ==
  /\ user_chat_ids_file \in StoredRegistries
  /\ TELEGRAM_CHAT_ID \in MainChatIds
  /\ ENABLE_TELEGRAM_ALERTS \in BOOLEAN
  /\ enabled = FALSE
  /\ user_chat_ids = << >>
  /\ boot = [phase |-> "stored", loaded |-> << >>]
  /\ alias = NoAlias
  /\ bcast = NoBroadcast
  /\ io = NoTransfer
  /\ checked = NoCheck
  /\ det = NoDetectCall
  /\ TRACKED_ADDRESSES = << >>
  /\ h_user_chat_ids = << >>
  /\ dynamic_addresses = << >>
  /\ dynamic_addresses_file = << >>
  /\ reply = "none"
  /\ registry_at_start = {}
  /\ current_positions = EmptyDict
  /\ positions_file = EmptyDict
  /\ pc = "idle"
  /\ idx = 1
  /\ all_changes = << >>
  /\ sent = 0
  /\ cycle_start_positions = EmptyDict
  /\ processed = << >>
  /\ dispatched = << >>
  /\ broadcasts = << >>
  /\ delivered = << >>
  /\ writes = 0

\* TelegramNotifier.__init__: _load_user_chat_ids, the main chat id added
\* (and saved by add_user) when it applies, then _initialize_bot
Construct ==
  /\ boot.phase = "stored"
  /\ boot' = [phase |-> "constructed", loaded |-> user_chat_ids_file]
  /\ user_chat_ids' = bootstrap(user_chat_ids_file, TELEGRAM_CHAT_ID)
  /\ user_chat_ids_file' = user_chat_ids'
  /\ enabled' \in (IF ENABLE_TELEGRAM_ALERTS THEN BOOLEAN ELSE {FALSE})
  /\ UNCHANGED << TRACKED_ADDRESSES, ENABLE_TELEGRAM_ALERTS, TELEGRAM_CHAT_ID, tracker,
                  handler, history, det, bcast, io, checked, alias >>

NextStartup == Construct

SpecStartup == InitStartup /\ [][NextStartup]_vars

\* C26: after construction the main chat id has been registered (one
\* "MainChat" entry appended to what was loaded) exactly when it is
\* configured and the loaded subscriber registry was empty; otherwise the
\* registry is what was loaded
DefaultConfigured == TELEGRAM_CHAT_ID # 0

DefaultRegistered ==
  user_chat_ids = Append(boot.loaded, MainUser(TELEGRAM_CHAT_ID))

C26_DefaultIffEmpty ==
  boot.phase = "constructed"
    => /\ DefaultRegistered <=> (DefaultConfigured /\ boot.loaded = << >>)
       /\ ~DefaultRegistered => user_chat_ids = boot.loaded
       /\ user_chat_ids_file = user_chat_ids

\* Both cases: the default registered over an empty file, and not
\* registered over a file with another recipient
C26_Witness ==
  /\ boot.phase = "constructed"
  /\ TELEGRAM_CHAT_ID = 9
  /\ boot.loaded = << >>
  /\ user_chat_ids = << MainUser(9) >>

C26_WitnessKept ==
  /\ boot.phase = "constructed"
  /\ TELEGRAM_CHAT_ID = 9
  /\ boot.loaded = << User1 >>
  /\ user_chat_ids = << User1 >>

\* ------------------------------------------------------------------------
\* Properties of subscribers who register while the tracker runs
\* ------------------------------------------------------------------------
\* C27: once user 7 has registered through a command, every later
\* broadcast of a change by the tracker includes a bot.send_message call
\* to chat 7
C27_NewSubscriberReceives ==
  [][ (HasUser(h_user_chat_ids, 7) /\ Len(broadcasts') > Len(broadcasts))
        => \E i \in DOMAIN delivered' :
             i > Len(delivered) /\ delivered'[i].chat_id = 7 ]_vars

\* ------------------------------------------------------------------------
\* The alias generator applied to arbitrary label sets
\* ------------------------------------------------------------------------
\* The labels dynamic_addresses can hold: earlier aliases and labels given
\* in "/add <address>:<label>"
AliasLabels == PlainAliases \cup NumberedAliases \cup TimeAliases \cup {"Whale"}

InitAlias ==
  /\ alias \in { [called |-> FALSE, used |-> used, label |-> ""] :
                   used \in SUBSET AliasLabels }
  /\ boot = NoBoot
  /\ bcast = NoBroadcast
  /\ io = NoTransfer
  /\ checked = NoCheck
  /\ det = NoDetectCall
  /\ TRACKED_ADDRESSES = << >>
  /\ ENABLE_TELEGRAM_ALERTS = FALSE
  /\ enabled = FALSE
  /\ TELEGRAM_CHAT_ID = 0
  /\ user_chat_ids = << >>
  /\ user_chat_ids_file = << >>
  /\ h_user_chat_ids = << >>
  /\ dynamic_addresses = << >>
  /\ dynamic_addresses_file = << >>
  /\ reply = "none"
  /\ registry_at_start = {}
  /\ current_positions = EmptyDict
  /\ positions_file = EmptyDict
  /\ pc = "idle"
  /\ idx = 1
  /\ all_changes = << >>
  /\ sent = 0
  /\ cycle_start_positions = EmptyDict
  /\ processed = << >>
  /\ dispatched = << >>
  /\ broadcasts = << >>
  /\ delivered = << >>
  /\ writes = 0

\* _generate_unique_alias() with alias.used as dynamic_addresses.values()
Generate ==
  /\ ~alias.called
  /\ \E label \in generate_unique_alias(alias.used) :
       alias' = [alias EXCEPT !.called = TRUE, !.label = label]
  /\ UNCHANGED << config, tracker, subscribers, handler, history, det, bcast, io,
                  checked, boot >>

NextAlias == Generate

SpecAlias == InitAlias /\ [][NextAlias]_vars

\* No plain and no numbered combination is left
Exhausted(used) == (PlainAliases \cup NumberedAliases) \subseteq used

\* C28: unless every plain and numbered combination is in use, the label
\* _generate_unique_alias returns is not among the labels in use
C28_AliasUnused ==
  alias.called => (Exhausted(alias.used) \/ alias.label \notin alias.used)

\* What does hold: a plain or numbered alias that is returned is not in use
CheckedAliasUnused ==
  (alias.called /\ alias.label \notin TimeAliases) => alias.label \notin alias.used

\* ------------------------------------------------------------------------
\* Properties of the snapshot write within a cycle
\* ------------------------------------------------------------------------
\* C29: when a notification of the cycle has been dispatched, the
\* _save_positions call of the cycle has completed
C29_PersistBeforeNotify == dispatched # << >> => writes = 1

\* What does hold: the write comes after the last notification of the cycle
NotifyBeforePersist == (writes = 1 /\ enabled) => Len(dispatched) = Len(all_changes)

\* C30: a cycle calls _save_positions at most once; when it has ended, it
\* has called it once if all_changes is not empty and not at all if it is
\* empty, whatever happened to current_positions
C30_WriteOnceIffChanges ==
  /\ writes <= 1
  /\ pc = "sleep" => writes = (IF all_changes # << >> THEN 1 ELSE 0)

\* A cycle without changes that replaced a slice of current_positions by a
\* new observation below the threshold and wrote nothing
C30_Witness ==
  /\ pc = "sleep"
  /\ all_changes = << >>
  /\ writes = 0
  /\ current_positions # cycle_start_positions
  /\ positions_file = cycle_start_positions
  /\ \E a \in DOMAIN cycle_start_positions : cycle_start_positions[a] # EmptyDict

\* ------------------------------------------------------------------------
\* The write of the positions file step by step (_save_positions)
\* ------------------------------------------------------------------------
\* open(POSITIONS_FILE, 'w'): the file is cut to nothing, and json.dump then
\* writes the document piece by piece
OpenForWrite ==
  /\ pc = "save"
  /\ positions_file' = CorruptFile
  /\ pc' = "writing"
  /\ UNCHANGED << config, current_positions, idx, all_changes, sent, subscribers,
                  handler, history, det, probes >>

\* json.dump and the end of the with block: the document is complete
DumpCompletes ==
  /\ pc = "writing"
  /\ positions_file' = current_positions
  /\ pc' = "sleep"
  /\ writes' = writes + 1
  /\ UNCHANGED << config, current_positions, idx, all_changes, sent, subscribers,
                  handler, cycle_start_positions, registry_at_start, processed,
                  dispatched, broadcasts, delivered, det, probes >>

\* Another process opening the positions file and reading what it holds
ReadStore ==
  /\ io' = [phase |-> "read", saved |-> positions_file,
            restored |-> positions_file # CorruptFile]
  /\ UNCHANGED << config, tracker, subscribers, handler, history, det, bcast,
                  checked, boot, alias >>

InitWrite == Startup({ << "0xa1" >> }, { Subscribers(0, << >>) })

NextWrite ==
  \/ StartCycle
  \/ \E response \in LoopResponses : CheckAddress(response)
  \/ AfterLoop
  \/ SendSingle({"ok"})
  \/ SendMultiple({"ok"})
  \/ OpenForWrite
  \/ DumpCompletes
  \/ Cancel
  \/ ReadStore

SpecWrite == InitWrite /\ [][NextWrite]_vars

\* C31: at every moment the positions file holds a complete document, the
\* previous one or the new one, also after a shutdown signal and for a
\* reader in another process
C31_StoreNeverTorn ==
  /\ positions_file # CorruptFile
  /\ io.phase = "read" => io.saved # CorruptFile

\* ------------------------------------------------------------------------
\* Properties of the files the two processes share
\* ------------------------------------------------------------------------
\* C32: user 7, whom the command handler has registered and written to
\* user_chat_ids.json and whom no process has deregistered, stays in the
\* file whatever the tracker process writes
C32_NoLostSubscriber ==
  HasUser(h_user_chat_ids, 7) => HasUser(user_chat_ids_file, 7)

\* ------------------------------------------------------------------------
\* Properties of the sleeps of the monitoring loop
\* ------------------------------------------------------------------------
\* The argument of asyncio.sleep in run_monitoring: POLLING_INTERVAL after
\* check_all_addresses returned, 10 in the except clause
sleep_seconds(at) == IF at = "backoff" THEN 10 ELSE POLLING_INTERVAL

\* C33: the sleep after an error taken by run_monitoring is strictly longer
\* than the sleep after a cycle that returned
C33_BackoffLonger == pc = "backoff" => sleep_seconds(pc) > sleep_seconds("sleep")

\* ------------------------------------------------------------------------
\* Properties of the order of the notifications
\* ------------------------------------------------------------------------
PlaceIn(seq, x) == CHOOSE i \in DOMAIN seq : seq[i] = x

\* C34: the changes of a cycle stand in all_changes in the order of
\* TRACKED_ADDRESSES, they are handed to send_position_change in the order
\* of all_changes, and the bot.send_message calls of one change all come
\* before those of the next change
C34_DispatchInDetectionOrder ==
  /\ \A i, j \in DOMAIN all_changes :
       i < j => PlaceIn(TRACKED_ADDRESSES, all_changes[i].address)
                  <= PlaceIn(TRACKED_ADDRESSES, all_changes[j].address)
  /\ Len(dispatched) <= Len(all_changes)
  /\ \A i \in DOMAIN dispatched : dispatched[i] = all_changes[i]
  /\ \A i, j \in DOMAIN broadcasts :
       i < j => PlaceIn(dispatched, broadcasts[i]) < PlaceIn(dispatched, broadcasts[j])
  /\ \A i, j \in DOMAIN delivered :
       i < j => PlaceIn(broadcasts, delivered[i].change)
                  <= PlaceIn(broadcasts, delivered[j].change)

\* Two changes of different addresses broadcast to two recipients each
C34_Witness ==
  /\ pc = "save"
  /\ Len(broadcasts) = 2
  /\ broadcasts[1].address # broadcasts[2].address
  /\ Len(delivered) = 4

\* ------------------------------------------------------------------------
\* One address whose position moves a little in every cycle
\* ------------------------------------------------------------------------
\* ETH alone: below the floor, then 300 apart, and once at twice the size
DriftResponses ==
  { PayloadOf({RawEntry("ETH", 1, 900, 5)}),
    PayloadOf({RawEntry("ETH", 1, 1000, 10)}),
    PayloadOf({RawEntry("ETH", 1, 1300, 10)}),
    PayloadOf({RawEntry("ETH", 1, 1600, 10)}),
    PayloadOf({RawEntry("ETH", 1, 1900, 10)}),
    PayloadOf({RawEntry("ETH", 2, 1000, 10)}) }

InitDrift == Startup({ << "0xa1" >> }, { Subscribers(0, << >>) })

NextDrift ==
  \/ StartCycle
  \/ \E response \in DriftResponses : CheckAddress(response)
  \/ AfterLoop
  \/ SendSingle({"ok"})
  \/ SavePositions

SpecDrift == InitDrift /\ [][NextDrift]_vars

\* C35: an observation of ETH whose market value is less than
\* MIN_CHANGE_THRESHOLD away from the stored one emits no change and becomes
\* the stored one, the baseline of the next cycle
C35_BaselineIsLastObservation ==
  [][ \A response \in DriftResponses :
        LET old_positions == GetSlice(current_positions, "0xa1")
            new_positions == get_user_positions(response)
        IN  (/\ CheckAddress(response)
             /\ "ETH" \in DOMAIN old_positions
             /\ "ETH" \in DOMAIN new_positions
             /\ Abs(new_positions["ETH"].market_value
                      - old_positions["ETH"].market_value) < MIN_CHANGE_THRESHOLD)
              => /\ all_changes' = all_changes
                 /\ GetSlice(current_positions', "0xa1") = new_positions ]_vars

\* ETH went from 1000, the value in the file since the last change, to
\* 1900 in steps of 300, and the cycle that reached 1900 found no change
C35_Witness ==
  /\ pc = "sleep"
  /\ all_changes = << >>
  /\ "0xa1" \in DOMAIN positions_file
  /\ "ETH" \in DOMAIN positions_file["0xa1"]
  /\ positions_file["0xa1"]["ETH"].market_value = 1000
  /\ "0xa1" \in DOMAIN current_positions
  /\ "ETH" \in DOMAIN current_positions["0xa1"]
  /\ current_positions["0xa1"]["ETH"].market_value = 1900

\* The market value the exchange reports for ETH in a response
ReportedValue(response) ==
  Abs(response.assetPositions["ETH"].szi) * response.assetPositions["ETH"].entryPx

LastChange == all_changes'[Len(all_changes')]

\* C36: a stored ETH position that is reported below MIN_POSITION_SIZE
\* gives one 'closed' change whose amount is the stored market value, and
\* with no stored position a report at or above the floor gives one
\* 'opened' change
C36_FloorCrossing ==
  [][ \A response \in DriftResponses :
        LET old_positions == GetSlice(current_positions, "0xa1")
        IN  /\ (/\ CheckAddress(response)
                /\ "ETH" \in DOMAIN old_positions
                /\ ReportedValue(response) < MIN_POSITION_SIZE)
                 => /\ Len(all_changes') = Len(all_changes) + 1
                    /\ LastChange.symbol = "ETH"
                    /\ LastChange.change_type = "closed"
                    /\ LastChange.change_amount = old_positions["ETH"].market_value
            /\ (/\ CheckAddress(response)
                /\ "ETH" \notin DOMAIN old_positions
                /\ ReportedValue(response) >= MIN_POSITION_SIZE)
                 => /\ Len(all_changes') = Len(all_changes) + 1
                    /\ LastChange.symbol = "ETH"
                    /\ LastChange.change_type = "opened"
                    /\ LastChange.change_amount = ReportedValue(response) ]_vars

\* ETH stood at 1000 and was reported at 900: closed with amount 1000
C36_Witness ==
  /\ pc = "sleep"
  /\ Len(all_changes) = 1
  /\ all_changes[1].change_type = "closed"
  /\ all_changes[1].change_amount = 1000
  /\ cycle_start_positions["0xa1"]["ETH"].market_value = 1000
  /\ current_positions["0xa1"] = EmptyDict

\* ETH had fallen below the floor and is back above it: opened
C36_WitnessBack ==
  /\ pc = "sleep"
  /\ "0xa1" \in DOMAIN cycle_start_positions
  /\ cycle_start_positions["0xa1"] = EmptyDict
  /\ Len(all_changes) = 1
  /\ all_changes[1].change_type = "opened"

\* ------------------------------------------------------------------------
\* Properties of the detector on positions that differ in more than value
\* ------------------------------------------------------------------------
SymbolChanges(symbol) == {i \in DOMAIN det.changes : det.changes[i].symbol = symbol}

\* C37: for a symbol in both maps the result depends on the two market
\* values alone: no change when they are less than MIN_CHANGE_THRESHOLD
\* apart, whatever side, size, entry price and PnL do, and otherwise one
\* change that is 'increased' or 'decreased' by the sign of the difference
C37_MarketValueOnly ==
  det.called =>
    \A symbol \in DOMAIN det.old \cap DOMAIN det.new :
      LET size_change == det.new[symbol].market_value - det.old[symbol].market_value
      IN  IF Abs(size_change) < MIN_CHANGE_THRESHOLD
            THEN SymbolChanges(symbol) = {}
            ELSE /\ Cardinality(SymbolChanges(symbol)) = 1
                 /\ \A i \in SymbolChanges(symbol) :
                      det.changes[i].change_type =
                        (IF size_change > 0 THEN "increased" ELSE "decreased")

\* Long 1 @ 1000 became short 1 @ 1400: side, entry price and PnL changed,
\* the market value by 400, and nothing is emitted
C37_Witness ==
  /\ det.called
  /\ det.changes = << >>
  /\ "ETH" \in DOMAIN det.old /\ "ETH" \in DOMAIN det.new
  /\ det.old["ETH"] = MakePosition(RawEntry("ETH", 1, 1000, 10))
  /\ det.new["ETH"] = MakePosition(RawEntry("ETH", -1, 1400, -20))

\* Short 1 @ 1400 became long 1 @ 1900: 'increased' across the change of side
C37_WitnessFlip ==
  /\ det.called
  /\ "ETH" \in DOMAIN det.old /\ "ETH" \in DOMAIN det.new
  /\ det.old["ETH"].side = "short"
  /\ det.new["ETH"].side = "long"
  /\ \E i \in SymbolChanges("ETH") : det.changes[i].change_type = "increased"

\* ------------------------------------------------------------------------
\* Properties of broadcasts after a deregistration
\* ------------------------------------------------------------------------
\* The chat ids the last send_message call removed from the registry
Deregistered == ChatIds(bcast.before) \ ChatIds(bcast.after)

\* C38: a chat id that the last send_message call deregistered and that has
\* not registered again gets no bot.send_message call in the next
\* send_message call, also when it is TELEGRAM_CHAT_ID and nobody is left
C38_DeregisteredNotAttempted ==
  [][ \A c \in Deregistered :
        (~HasUser(user_chat_ids, c) /\ Broadcast(DeliverOutcomes))
          => c \notin Range(bcast'.attempts) ]_vars

\* What does hold: such a chat id gets another call only as the main chat
\* id of an empty registry
DeregisteredOnlyAsFallback ==
  [][ \A c \in Deregistered :
        (~HasUser(user_chat_ids, c) /\ Broadcast(DeliverOutcomes)
           /\ c \in Range(bcast'.attempts))
          => (c = TELEGRAM_CHAT_ID /\ user_chat_ids = << >>) ]_vars

\* ------------------------------------------------------------------------
\* Properties of a cycle whose notifications raise
\* ------------------------------------------------------------------------
\* The notification block was left before every change was handed over
NotifyInterrupted ==
  /\ ENABLE_TELEGRAM_ALERTS /\ enabled
  /\ pc \in {"save", "sleep"}
  /\ sent < Len(all_changes)

\* C39: an exception in the notification block leads on to _save_positions
\* with all_changes as it was; unless the process is stopped the write
\* follows, and the cycle returns having called _save_positions once
C39_NotifyFailureStillSaves ==
  /\ [][NotifyRaises => (pc' = "save" /\ all_changes' = all_changes)]_vars
  /\ [](NotifyInterrupted /\ pc = "sleep" => writes = 1)
  /\ (NotifyInterrupted /\ pc = "save") ~> (pc \in {"sleep", "cancelled"})

\* Two changes, the first handed over, then the exception, then the write
C39_Witness ==
  /\ NotifyInterrupted
  /\ pc = "sleep"
  /\ Len(all_changes) = 2
  /\ sent = 1
  /\ writes = 1

\* ------------------------------------------------------------------------
\* Properties of the sender's registration
\* ------------------------------------------------------------------------
\* The replies of a command that was turned down
Rejections == {"usage", "invalid", "already_tracked", "not_tracked", "not_found"}

\* add_user for the sender of the model's commands, stored
SenderRegistered ==
  /\ h_user_chat_ids' = add_user(h_user_chat_ids, 7, "carol", "Carol", 1)
  /\ user_chat_ids_file' = h_user_chat_ids'

\* A step of /add, /remove, the remove button or /check
CommandStep ==
  \/ \E args \in CommandAddArgs : Add(args)
  \/ \E args \in CommandRemoveArgs : Remove(args)
  \/ \E a \in CommandAddresses : PressRemove(a, "ok")
  \/ \E args \in CommandRemoveArgs, fetch \in {"ok", "fails"} : Check(args, fetch)

\* C40: a command that is turned down has registered or updated its sender
\* and rewritten the subscriber file, and has left the address registry, its
\* file and the tracker's positions and snapshot as they were; /start,
\* /help, /list and plain messages register their sender the same way
C40_SenderRegisteredFirst ==
  [][ /\ (CommandStep /\ reply' \in Rejections)
         => (SenderRegistered /\ RegistryKept /\ UNCHANGED tracker)
      /\ \A u \in Interactions :
           Contact(u)
             => /\ h_user_chat_ids' =
                     add_user(h_user_chat_ids, u.chat_id, u.username,
                              u.first_name, u.added_at)
                /\ user_chat_ids_file' = h_user_chat_ids'
                /\ RegistryKept /\ UNCHANGED tracker ]_vars

\* A malformed argument from a sender who is in the file afterwards, with an
\* empty registry
C40_Witness ==
  /\ reply = "invalid"
  /\ HasUser(user_chat_ids_file, 7)
  /\ user_chat_ids_file = h_user_chat_ids
  /\ dynamic_addresses = << >>
  /\ dynamic_addresses_file = << >>

\* /remove of an address that is not tracked, the sender registered
C40_WitnessNotTracked ==
  /\ reply = "not_tracked"
  /\ HasUser(user_chat_ids_file, 7)
====
